---- MODULE Spec2Model ----
(***************************************************************************)
(* Verification model of the fault-tolerant orchestration core of the      *)
(* Rise of Kingdoms automation bot:                                        *)
(*   - DailyTaskTracker        (src/src/daily_task_tracker.py)             *)
(*   - RecoveryManager, with_retry (src/src/recovery_manager.py)           *)
(*   - CharacterSwitcher       (src/src/character_switcher.py)             *)
(* Dates are UTC calendar days counted 1, 2, ...; 0 stands for None.       *)
(* The "last_updated" stamp of the tracking file is written by every save  *)
(* and read by nothing; it is left out of the document.                    *)
(***************************************************************************)
EXTENDS Integers, Sequences, FiniteSets, TLC

\* ------------------------------------------------------------------ bounds
MaxChars == 3        \* largest num_of_chars of a run without tracker
DailyChars == 2      \* num_of_chars of the instance that runs with a tracker
LiveChars == 2       \* largest num_of_chars of a run of SpecLive
MaxDay == 2          \* UTC days 1..MaxDay
TrackerChars == 1    \* number of character indices used by SpecTracker
MaxRetries == 2      \* largest RetryConfig.max_retries of SpecRecovery
MaxDirect == 3       \* largest max_attempts of a direct return_to_home call
MaxFaults == 1       \* writes of the tracking file that fail in one behaviour
MaxLaunches == 2     \* automation threads started in one behaviour of SpecLauncher
MaxClock == 3        \* hours that pass in one behaviour of SpecSchedule

\* ------------------------------------------------------- program constants
TASK_BUILD == "build"
TASK_EXPEDITION == "expedition"
Tasks == {TASK_BUILD, TASK_EXPEDITION}

Chars == 0 .. (MaxChars - 1)
TChars == 0 .. (TrackerChars - 1)
AllChars == Chars \cup TChars \cup (0 .. (DailyChars - 1))
Days == 1 .. MaxDay

VARIABLES
    utc_day,        \* current UTC calendar date (datetime.now(timezone.utc))
    stop,           \* the stop event of the running automation thread
    env_faults,     \* the emulator may refuse inputs and show any screen
    data,           \* DailyTaskTracker.data of the live tracker object
    file,           \* content of the tracking file on disk
    marked,         \* history: date each (character, task) should hold in memory
    persisted,      \* history: date each (character, task) should hold on disk
    io_faults,      \* history: number of writes of the tracking file that have failed
    t_last,         \* history: the last tracker API call and its result
    config,         \* the RetryConfig bound by with_retry
    has_recovery,   \* the decorated object has a (truthy) recovery attribute
    num_of_chars,   \* CharacterSwitcher.num_of_chars
    start_from,     \* argument of switch_all_characters
    force_daily_tasks,  \* CharacterSwitcher.force_daily_tasks
    has_tracker,    \* CharacterSwitcher.daily_tracker is not None
    will,           \* will_perform_build / _expedition / _donation
    missing_region, \* the check of get_current_screen whose OCR region the
                    \* coordinates file lacks, 0 when it has every region
    pc,             \* position of the single thread of control
    i,              \* loop variable of switch_all_characters
    successful_characters,
    failed_characters,
    stopped_early,  \* the loop of switch_all_characters was left by break
    run_result,     \* value returned by switch_all_characters
    current_character_index,
    attempt,        \* loop variable of the with_retry wrapper
    last_exception, \* wrapper: an attempt raised
    f_result,       \* outcome of the wrapped function: "true", "false", "raise"
    w_result,       \* value returned by the wrapper
    w_raised,       \* the wrapper call ended with an exception
    calls,          \* history: invocations of the wrapped function in this wrapper call
    recs,           \* history: return_to_home invocations by this wrapper call
    r_attempt,      \* loop variable of return_to_home
    r_max,          \* max_attempts of the running return_to_home call
    r_caller,       \* who called return_to_home: the wrapper after a falsy result
                    \* ("retry") or in its except clause ("retry_handler"), the loop
                    \* of switch_all_characters in its try block ("bulkhead") or in
                    \* its except clause ("bulkhead_handler"), or a "direct" caller
    current_screen, \* last result of get_current_screen
    r_result,       \* value returned by return_to_home
    cls,            \* history: get_current_screen calls in this return_to_home call
    acts,           \* history: corrective actions applied in this return_to_home call
    homes,          \* history: classifications that gave HOME_VILLAGE in this call
    r_stopped,      \* history: the stop event was set at some step of this call
    c_esc,          \* loop variable of the dismiss loop of confirm_character_switch
    elapsed,        \* wait_for_game_load: seconds waited
    loading_detected,   \* wait_for_game_load: loading screen was seen
    steps,          \* history: the steps of _process_single_character settled in this attempt
    sub_failed,     \* history: an automation of this attempt returned False
    ev,             \* history: what the last step did
    visited,        \* history: indices for which processing was started, in order
    retried_ok,     \* history: an index of this run succeeded after a failed attempt
    exhausted,      \* history: indices whose wrapper call used up every attempt in this run
    ent_recov,      \* history: return_to_home invocations for the current index
    succ,           \* history: day of the last reported success of each (character, task)
    now_succ,       \* history: day each task reported success while the current index is processed
    pre_stopped,    \* history: the stop event was set when switch_all_characters was called
    stopped_in,     \* history: index whose processing was under way when stop was set, or -1
    stop_seen,      \* history: a check_stop_requested of this run has returned True
    running_threads,    \* MultiInstanceLauncher.running_threads: the thread registered
                        \* for each instance id, 0 when the id is not a key
    threads,        \* the AutomationThreads started so far, each with its own stop event
    stores,         \* the tasks recorded in the tracking file at each path
    req,            \* the stop_instance call each calling thread is in
    l_last,         \* history: the last launcher call that returned or raised
    schedule_file,  \* ScheduleManager: what <instance_id>_schedule.json holds
    utc_now,        \* the UTC clock, in hours
    s_last,         \* history: the last ScheduleManager call that returned or raised
                    \* since the clock last moved
    s_initial,      \* history: what the schedule file held before the first call
    triggered,      \* history: trigger_immediate_run was called
    promised_until, \* history: now + interval_hours of the last mark_run_complete that
                    \* returned with a positive interval, until trigger_immediate_run or
                    \* set_interval is called; 0 when there is none
    saved_until     \* history: the same, of the last one whose schedule was written, and
                    \* until a later write leaves the file torn

envv == <<utc_day, stop, env_faults>>
trkv == <<data, file, marked, persisted, io_faults>>
cfgv == <<config, has_recovery, num_of_chars, start_from, force_daily_tasks, has_tracker, will,
          missing_region>>
orchv == <<i, successful_characters, failed_characters, stopped_early, run_result,
           current_character_index>>
wrapg == <<w_raised>>
wrapv == <<attempt, last_exception, f_result, w_result, calls, recs, wrapg>>
recv == <<r_attempt, r_max, r_caller, current_screen, r_result, cls, acts, homes, r_stopped>>
stepv == <<steps, sub_failed>>
confv == <<c_esc, elapsed, loading_detected, stepv>>
sucv == <<succ, now_succ>>
ghostv == <<visited, retried_ok, exhausted, ent_recov, sucv>>
stopv == <<pre_stopped, stopped_in, stop_seen>>
launchv == <<running_threads, threads, stores, req, l_last>>
schedv == <<schedule_file, utc_now, s_last, s_initial, triggered, promised_until, saved_until>>
vars == <<envv, trkv, t_last, cfgv, pc, orchv, wrapv, recv, confv, ev, ghostv, stopv, launchv,
          schedv>>

\* history: no date for any (character, task)
NoMarks == [c \in AllChars |-> [t \in Tasks |-> 0]]

\* --------------------------------------------------------- DailyTaskTracker
\* The "characters" mapping of the document is kept as the set of character
\* keys present and the set of <<character, task, date>> entries below them.
\* A JSON value read from the file is a "document" (an object whose
\* "characters" is a mapping), an object without the key "characters"
\* ("no_characters") or a value that is not an object ("not_object").
EmptyDoc == [shape |-> "document", keys |-> {}, entries |-> {}]

\* _get_today_utc
GetTodayUtc == utc_day

\* char_data.get(task_name): the stored date, None (0) when absent
CharDataGet(d, c, t) ==
    IF \E e \in d.entries : e[1] = c /\ e[2] = t
    THEN (CHOOSE e \in d.entries : e[1] = c /\ e[2] = t)[3]
    ELSE 0

\* _load_tracking_data: the parsed file whatever JSON value it holds, or the
\* empty structure when the file does not exist, cannot be opened or is not
\* JSON ("corrupt").  Only JSONDecodeError and IOError are caught: bytes that
\* do not decode as text ("undecodable") raise UnicodeDecodeError.
LoadRaises(f) == f.state = "undecodable"
LoadTrackingDataFresh(f) == EmptyDoc
LoadTrackingData(f) ==
    IF f.state = "ok" THEN f.doc ELSE EmptyDoc

\* self.data["characters"] raises KeyError or TypeError unless the data is a
\* document: is_task_completed_today, mark_task_completed and
\* reset_tasks_for_character read it first thing
CharactersRaises(d) == d.shape # "document"

\* reset_all_tasks assigns self.data["characters"]: TypeError unless the data
\* is an object
ResetAllRaises(d) == d.shape = "not_object"

\* is_task_completed_today
IsTaskCompletedToday(d, c, t, today) ==
    IF c \notin d.keys
    THEN FALSE
    ELSE CharDataGet(d, c, t) = today

\* mark_task_completed, up to the call of _save_tracking_data
MarkTaskCompleted(d, c, t, today) ==
    [d EXCEPT !.keys = @ \cup {c},
              !.entries = {e \in @ : ~(e[1] = c /\ e[2] = t)} \cup {<<c, t, today>>}]

\* reset_all_tasks, up to the call of _save_tracking_data
ResetAllTasks(d) ==
    [d EXCEPT !.shape = "document", !.keys = {}, !.entries = {}]

\* reset_tasks_for_character, up to the call of _save_tracking_data
ResetTasksForCharacter(d, c) ==
    [d EXCEPT !.keys = @ \ {c}, !.entries = {e \in @ : e[1] # c}]

\* _save_tracking_data: open(..., 'w') and json.dump.  The write replaces the
\* file ("written"); or open raises IOError and the file stays as it was
\* ("refused"); or the dump raises IOError after open has truncated the file
\* and what is left does not parse ("torn").  IOError is logged and swallowed.
WriteOutcomes ==
    IF io_faults < MaxFaults THEN {"written", "refused", "torn"} ELSE {"written"}

SaveFile(d, out) ==
    CASE out = "written" -> [state |-> "ok", doc |-> d]
      [] out = "torn" -> [state |-> "corrupt", doc |-> EmptyDoc]
      [] OTHER -> file

\* history: the dates a document holds
DocMarks(d) ==
    [c \in AllChars |-> [t \in Tasks |->
        IF d.shape = "document" /\ \E e \in d.entries : e[1] = c /\ e[2] = t
        THEN (CHOOSE e \in d.entries : e[1] = c /\ e[2] = t)[3]
        ELSE 0]]

\* history: what a new tracker object should read back after a save
Persisted(m, out) ==
    CASE out = "written" -> m
      [] out = "torn" -> NoMarks
      [] OTHER -> persisted

Faults(out) == IF out = "written" THEN io_faults ELSE io_faults + 1

\* ---------------------------------------------------------- RecoveryManager
HOME_VILLAGE == "HOME_VILLAGE"
MAP_SCREEN == "MAP_SCREEN"
CHARACTER_LOGIN == "CHARACTER_LOGIN"
ALLIANCE_MENU == "ALLIANCE_MENU"
DIALOG_OPEN == "DIALOG_OPEN"
UNKNOWN == "UNKNOWN"
GameScreen == {HOME_VILLAGE, MAP_SCREEN, CHARACTER_LOGIN, ALLIANCE_MENU, DIALOG_OPEN, UNKNOWN}

\* the detection checks of get_current_screen, in the order they are run
ScreenChecks ==
    << [pred |-> "is_in_character_login", screen |-> CHARACTER_LOGIN],
       [pred |-> "is_char_in_alliance", screen |-> ALLIANCE_MENU],
       [pred |-> "is_in_home_village", screen |-> HOME_VILLAGE],
       [pred |-> "is_in_map_screen", screen |-> MAP_SCREEN],
       [pred |-> "is_bottom_bar_expanded", screen |-> DIALOG_OPEN] >>

\* what the checks can report: anything, or, with an emulator without
\* faults, the home village or a dialog left open and nothing else
Observations ==
    IF env_faults
    THEN [1 .. Len(ScreenChecks) -> BOOLEAN]
    ELSE {[k \in 1 .. Len(ScreenChecks) |-> ScreenChecks[k].screen = s] :
            s \in {HOME_VILLAGE, DIALOG_OPEN}}

\* get_current_screen, given what each check would report: a set stop flag
\* gives UNKNOWN, otherwise the screen of the first check that reports presence
GetCurrentScreen(stopped, obs) ==
    IF stopped THEN UNKNOWN
    ELSE LET hits == {k \in 1 .. Len(ScreenChecks) : obs[k]} IN
         IF hits = {} THEN UNKNOWN
         ELSE ScreenChecks[CHOOSE k \in hits : \A m \in hits : k <= m].screen

\* the number of checks get_current_screen runs: each "if" returns at once
\* when its check reports presence, and the stop check returns before all
RECURSIVE ChecksFrom(_, _)
ChecksFrom(obs, k) ==
    IF k > Len(ScreenChecks) THEN Len(ScreenChecks)
    ELSE IF obs[k] THEN k
    ELSE ChecksFrom(obs, k + 1)

ChecksEvaluated(stopped, obs) == IF stopped THEN 0 ELSE ChecksFrom(obs, 1)

\* get_current_screen raises KeyError when it comes to a check whose OCR
\* region is missing: ScreenDetector reads the region with coords.get_region
\* before it looks at the screen, and after its own stop check
GetCurrentScreenRaises(stopped, obs) ==
    /\ ~stopped
    /\ missing_region # 0
    /\ \A m \in 1 .. (missing_region - 1) : ~obs[m]

\* the corrective action return_to_home applies on a screen
RecoveryActionOneEscape(screen) ==
    CASE screen = MAP_SCREEN -> [clicks |-> 1, escapes |-> 0]
      [] OTHER -> [clicks |-> 0, escapes |-> 1]
RecoveryAction(screen) ==
    CASE screen = MAP_SCREEN -> [clicks |-> 1, escapes |-> 0]
      [] screen = CHARACTER_LOGIN -> [clicks |-> 0, escapes |-> 3]
      [] screen = ALLIANCE_MENU -> [clicks |-> 0, escapes |-> 2]
      [] screen = DIALOG_OPEN -> [clicks |-> 0, escapes |-> 1]
      [] OTHER -> [clicks |-> 0, escapes |-> 1]

DefaultMaxAttempts == 5
BulkheadMaxAttempts == 3

\* ------------------------------------------------------------------ history
Ev(kind, task, flag, clicks, escapes) ==
    [kind |-> kind, task |-> task, flag |-> flag, clicks |-> clicks, escapes |-> escapes,
     swipes |-> 0, mark |-> FALSE, obs |-> <<>>, evals |-> 0, buffers |-> 0, seen |-> FALSE]
NoEv == Ev("none", "", FALSE, 0, 0)

NoTaskDays == [t \in Tasks |-> 0]
TLastInit == [op |-> "none", c |-> 0, t |-> TASK_BUILD, res |-> FALSE, raised |-> FALSE,
              out |-> "none"]

\* a signal of the emulator: either value with faults, the quiet one without
Signal(quiet) == IF env_faults THEN BOOLEAN ELSE {quiet}

\* ------------------------------------------------------------ initial state
ProcessRetryConfig == [max_retries |-> 2, recover_to_home |-> TRUE]

\* no tracking file yet
MissingFile == [state |-> "missing", doc |-> EmptyDoc]

\* ---------------------------------------------------- MultiInstanceLauncher
\* two instance ids of the instance manager, and the threads that call
\* stop_instance: the GUI thread and the worker of stop_all_instances
Instances == {"A", "B"}
Requesters == {"gui", "worker"}
InstancesDir == "instances"

\* get_tracker_path_for_instance: os.path.join(instances_dir, "<id>_daily_tasks.json")
GetTrackerPathShared(instances_dir, instance_id) == <<instances_dir, "daily_tasks.json">>
GetTrackerPathForInstance(instances_dir, instance_id) ==
    <<instances_dir, instance_id, "_daily_tasks.json">>

Paths == {GetTrackerPathForInstance(InstancesDir, id) : id \in Instances}

\* no stop_instance call in progress
NoRequest == [pc |-> "idle", inst |-> ""]

\* history: a launcher call on inst returned res or raised
LCall(op, inst, res, raised) ==
    [op |-> op, inst |-> inst, res |-> res, raised |-> raised]

\* MultiInstanceLauncher.__init__: no running thread; no tracking file yet
LauncherInit ==
    /\ running_threads = [id \in Instances |-> 0]
    /\ threads = <<>>
    /\ stores = [p \in Paths |-> {}]
    /\ req = [r \in Requesters |-> NoRequest]
    /\ l_last = LCall("none", "", FALSE, FALSE)

\* ------------------------------------------------------- ScheduleManager
DEFAULT_INTERVAL_HOURS == 12

\* A time kept in the schedule is the JSON value of "last_run_utc" or
\* "next_run_utc": null ("none"), a value datetime.fromisoformat rejects
\* ("bad": a string that is no ISO date, or a value that is no string), an ISO
\* string without a UTC offset ("naive") or one with an offset ("aware").  t is
\* the instant in hours; a datetime is [aware, t].
NoTime == [kind |-> "none", t |-> 0]
BadTime == [kind |-> "bad", t |-> 0]
NaiveTime(t) == [kind |-> "naive", t |-> t]
AwareTime(t) == [kind |-> "aware", t |-> t]

\* datetime.isoformat(): the offset is written iff the datetime is aware
IsoFormat(dt) == [kind |-> IF dt.aware THEN "aware" ELSE "naive", t |-> dt.t]

\* datetime.fromisoformat(): ValueError or TypeError on what is no ISO string
FromIsoFormatRaises(v) == v.kind \notin {"naive", "aware"}
FromIsoFormat(v) == [aware |-> v.kind = "aware", t |-> v.t]

\* "not next_run_str", "schedule.get('last_run_utc')": null is falsy
Truthy(v) == v.kind # "none"

\* dt + timedelta(hours=h)
PlusHours(dt, h) == [dt EXCEPT !.t = dt.t + h]

\* "now >= next_run" raises TypeError when exactly one side is naive
CompareRaises(a, b) == a.aware # b.aware

\* _get_default_schedule
DefaultSchedule ==
    [enabled |-> FALSE, interval_hours |-> DEFAULT_INTERVAL_HOURS,
     last_run_utc |-> NoTime, next_run_utc |-> NoTime]

ScheduleDoc(enabled, hours, last, next) ==
    [kind |-> "document",
     doc |-> [enabled |-> enabled, interval_hours |-> hours,
              last_run_utc |-> last, next_run_utc |-> next]]

\* the schedule file: absent, text that is not JSON, a JSON value that is not
\* an object, or an object (get_schedule fills the keys it lacks)
NoScheduleFile == [kind |-> "missing", doc |-> DefaultSchedule]
InvalidScheduleFile == [kind |-> "invalid", doc |-> DefaultSchedule]
NotObjectScheduleFile == [kind |-> "not_object", doc |-> DefaultSchedule]

\* get_schedule: the object of the file, defaults when there is no file or no
\* JSON in it; a JSON value that is not an object makes the key loop raise
GetScheduleRaises(f) == f.kind = "not_object"
GetSchedule(f) == IF f.kind = "document" THEN f.doc ELSE DefaultSchedule

\* history: a ScheduleManager call returned res or raised; out is what became
\* of its write
SCall(op, res, raised, out) ==
    [op |-> op, res |-> res, raised |-> raised, out |-> out]

\* no call made yet on the file sf
ScheduleInit(sf) ==
    /\ schedule_file = sf
    /\ utc_now = 0
    /\ s_last = SCall("none", FALSE, FALSE, "none")
    /\ s_initial = sf
    /\ triggered = FALSE
    /\ promised_until = 0
    /\ saved_until = 0

InitWith(cfg, rec, tracker, faults, w, n, f, region, sf) ==
    /\ utc_day = 1
    /\ stop = FALSE
    /\ env_faults = faults
    /\ file = f
    /\ data = LoadTrackingData(file)
    /\ marked = DocMarks(data)
    /\ persisted = DocMarks(data)
    /\ io_faults = 0
    /\ t_last = TLastInit
    /\ config = cfg
    /\ num_of_chars = n
    /\ start_from = 0
    /\ force_daily_tasks = FALSE
    /\ has_recovery = rec
    /\ has_tracker = (tracker /\ ~LoadRaises(f))
    /\ will = w
    /\ missing_region = region
    /\ pc = "idle"
    /\ i = 0
    /\ successful_characters = 0
    /\ failed_characters = <<>>
    /\ stopped_early = FALSE
    /\ run_result = TRUE
    /\ current_character_index = 0
    /\ attempt = 0
    /\ last_exception = FALSE
    /\ f_result = "true"
    /\ w_result = TRUE
    /\ w_raised = FALSE
    /\ calls = 0
    /\ recs = 0
    /\ r_attempt = 0
    /\ r_max = 0
    /\ r_caller = "direct"
    /\ current_screen = UNKNOWN
    /\ r_result = FALSE
    /\ cls = 0
    /\ acts = 0
    /\ homes = 0
    /\ r_stopped = FALSE
    /\ c_esc = 0
    /\ elapsed = 0
    /\ loading_detected = FALSE
    /\ steps = <<>>
    /\ sub_failed = FALSE
    /\ ev = NoEv
    /\ visited = <<>>
    /\ retried_ok = FALSE
    /\ exhausted = {}
    /\ ent_recov = 0
    /\ succ = NoMarks
    /\ now_succ = NoTaskDays
    /\ pre_stopped = FALSE
    /\ stopped_in = -1
    /\ stop_seen = FALSE
    /\ LauncherInit
    /\ ScheduleInit(sf)

\* ------------------------------------------------------------- environment
\* a UTC day boundary passes
Tick ==
    /\ utc_day < MaxDay
    /\ utc_day' = utc_day + 1
    /\ ev' = NoEv
    /\ t_last' = TLastInit
    /\ UNCHANGED <<stop, env_faults, trkv, cfgv, pc, orchv, wrapv, recv, confv, ghostv>>
    /\ UNCHANGED stopv
    /\ UNCHANGED <<launchv, schedv>>

\* the wrapper call for index i is under way
Processing ==
    pc \in {"w_call", "f_enter", "open1", "open2", "open3", "nav", "confirm", "wait_load",
            "post_load", "esc", "act0", "build_gate", "build_run", "mid1", "exp_gate",
            "exp_run", "mid2", "don", "w_ret", "w_sleep"}
      \/ (pc \in {"r_head", "r_classify", "r_act", "r_ret", "r_raise"}
            /\ r_caller \in {"retry", "retry_handler"})

\* stop_instance sets the stop event of the running thread
RequestStop ==
    /\ pc \notin {"idle", "done", "crashed"}
    /\ ~stop
    /\ stop' = TRUE
    /\ r_stopped' = (pc \in {"r_head", "r_classify", "r_act"})
    /\ stopped_in' = IF Processing THEN i ELSE -1
    /\ UNCHANGED <<pre_stopped, stop_seen>>
    /\ ev' = NoEv
    /\ UNCHANGED <<utc_day, env_faults, trkv, t_last, cfgv, pc, orchv, wrapv, confv, ghostv,
                   r_attempt, r_max, r_caller, current_screen, r_result, cls, acts, homes>>
    /\ UNCHANGED <<launchv, schedv>>

\* check_stop_requested
CheckStopRequested == stop

\* history: a step that evaluates check_stop_requested
StopChecked ==
    /\ stop_seen' = (stop_seen \/ CheckStopRequested)
    /\ UNCHANGED <<pre_stopped, stopped_in>>

\* the locals of a finished call are dead: they take their initial values
RecoveryLocalsGone ==
    /\ r_attempt' = 0
    /\ r_max' = 0
    /\ r_caller' = "direct"
    /\ current_screen' = UNKNOWN
    /\ r_result' = FALSE
    /\ cls' = 0
    /\ acts' = 0
    /\ homes' = 0
    /\ r_stopped' = FALSE

WrapperLocalsGone ==
    /\ attempt' = 0
    /\ last_exception' = FALSE
    /\ f_result' = "true"
    /\ w_result' = TRUE
    /\ w_raised' = FALSE
    /\ calls' = 0
    /\ recs' = 0

\* ------------------------------------------------------- return_to_home
\* a call of return_to_home(max_attempts) starts
EnterReturnToHome(caller, max_attempts) ==
    /\ r_caller' = caller
    /\ r_max' = max_attempts
    /\ r_attempt' = 0
    /\ cls' = 0
    /\ acts' = 0
    /\ homes' = 0
    /\ r_stopped' = stop
    /\ ent_recov' = ent_recov + 1
    /\ pc' = "r_head"
    /\ UNCHANGED <<current_screen, r_result>>

\* "for attempt in range(max_attempts)": the range is exhausted
RangeExhausted(att, max_attempts) == att >= max_attempts

\* head of the loop: range exhausted, or stop requested, ends the call
RthHead ==
    /\ pc = "r_head"
    /\ IF RangeExhausted(r_attempt, r_max) \/ CheckStopRequested
       THEN /\ r_result' = FALSE
            /\ pc' = "r_ret"
       ELSE /\ pc' = "r_classify"
            /\ UNCHANGED r_result
    /\ IF RangeExhausted(r_attempt, r_max) THEN UNCHANGED stopv ELSE StopChecked
    /\ ev' = NoEv
    /\ UNCHANGED <<envv, trkv, t_last, cfgv, orchv, wrapv, confv, ghostv,
                   r_attempt, r_max, r_caller, current_screen, cls, acts, homes, r_stopped>>
    /\ UNCHANGED <<launchv, schedv>>

\* current_screen = self.get_current_screen(); HOME_VILLAGE ends the call,
\* an exception of get_current_screen leaves return_to_home
RthClassify ==
    /\ pc = "r_classify"
    /\ \E obs \in Observations :
         IF GetCurrentScreenRaises(CheckStopRequested, obs)
         THEN /\ ev' = Ev("classify_raised", "", FALSE, 0, 0)
              /\ pc' = "r_raise"
              /\ UNCHANGED <<current_screen, r_result, homes>>
         ELSE /\ current_screen' = GetCurrentScreen(CheckStopRequested, obs)
              /\ ev' = Ev("classify", current_screen', FALSE, 0, 0)
              /\ IF current_screen' = HOME_VILLAGE
                 THEN /\ r_result' = TRUE
                      /\ homes' = homes + 1
                      /\ pc' = "r_ret"
                 ELSE /\ pc' = "r_act"
                      /\ UNCHANGED <<r_result, homes>>
    /\ cls' = cls + 1
    /\ StopChecked
    /\ UNCHANGED <<envv, trkv, t_last, cfgv, orchv, wrapv, confv, ghostv,
                   r_attempt, r_max, r_caller, acts, r_stopped>>
    /\ UNCHANGED <<launchv, schedv>>

\* the recovery action for the classified screen, then the next iteration
RthActAssumeSuccess ==
    /\ pc = "r_act"
    /\ ev' = Ev("recover", current_screen, FALSE,
                RecoveryAction(current_screen).clicks,
                RecoveryAction(current_screen).escapes)
    /\ acts' = acts + 1
    /\ r_attempt' = r_attempt + 1
    /\ pc' = "r_ret"
    /\ r_result' = TRUE
    /\ UNCHANGED <<envv, trkv, t_last, cfgv, orchv, wrapv, confv, ghostv,
                   r_max, r_caller, current_screen, cls, homes, r_stopped>>
    /\ UNCHANGED stopv
    /\ UNCHANGED <<launchv, schedv>>
RthAct ==
    /\ pc = "r_act"
    /\ ev' = Ev("recover", current_screen, FALSE,
                RecoveryAction(current_screen).clicks,
                RecoveryAction(current_screen).escapes)
    /\ acts' = acts + 1
    /\ r_attempt' = r_attempt + 1
    /\ pc' = "r_head"
    /\ UNCHANGED <<envv, trkv, t_last, cfgv, orchv, wrapv, confv, ghostv,
                   r_max, r_caller, current_screen, r_result, cls, homes, r_stopped>>
    /\ UNCHANGED stopv
    /\ UNCHANGED <<launchv, schedv>>

\* --------------------------------------------------------------- with_retry
\* one iteration of "for attempt in range(config.max_retries + 1)" calls func
WrapperAttempt ==
    /\ pc = "w_call"
    /\ calls' = calls + 1
    /\ pc' = "f_enter"
    /\ ev' = NoEv
    /\ UNCHANGED <<envv, trkv, t_last, cfgv, orchv, recv, confv, ghostv,
                   attempt, last_exception, f_result, w_result, recs, wrapg>>
    /\ UNCHANGED stopv
    /\ UNCHANGED <<launchv, schedv>>

\* "if attempt < config.max_retries": recovery and delay follow a failure
ShouldRecover(att, cfg) == att < cfg.max_retries

\* the for statement takes the next value of range(max_retries + 1), or the
\* loop is exhausted and the wrapper returns False
WrapperLoopNext ==
    IF attempt + 1 < config.max_retries + 1
    THEN /\ attempt' = attempt + 1
         /\ pc' = "w_call"
         /\ UNCHANGED <<w_result, exhausted>>
    ELSE /\ w_result' = FALSE
         /\ exhausted' = exhausted \cup {i}
         /\ pc' = "o_ret"
         /\ UNCHANGED attempt

\* func has returned or raised: a truthy result returns True; a failure (False
\* or an exception) recovers and sleeps when attempts remain
WrapperAfterAttempt ==
    /\ pc = "w_ret"
    /\ last_exception' = (last_exception \/ f_result = "raise")
    /\ IF f_result = "true"
       THEN /\ w_result' = TRUE
            /\ pc' = "o_ret"
            /\ UNCHANGED <<attempt, recs, recv, ghostv>>
       ELSE /\ UNCHANGED <<visited, retried_ok, sucv>>
            /\ IF ShouldRecover(attempt, config)
               THEN IF config.recover_to_home /\ has_recovery
                    THEN /\ recs' = recs + 1
                         /\ EnterReturnToHome(IF f_result = "raise" THEN "retry_handler"
                                                                    ELSE "retry",
                                              DefaultMaxAttempts)
                         /\ UNCHANGED <<w_result, attempt, exhausted>>
                    ELSE /\ pc' = "w_sleep"
                         /\ UNCHANGED <<w_result, attempt, recs, recv, ent_recov, exhausted>>
               ELSE /\ WrapperLoopNext
                    /\ UNCHANGED <<recs, recv, ent_recov>>
    /\ ev' = NoEv
    /\ steps' = <<>>
    /\ sub_failed' = FALSE
    /\ UNCHANGED <<envv, trkv, t_last, cfgv, orchv, c_esc, elapsed, loading_detected, f_result, calls, wrapg>>
    /\ UNCHANGED stopv
    /\ UNCHANGED <<launchv, schedv>>

\* time.sleep(config.delay_between_retries), then the next iteration
WrapperSleep ==
    /\ pc = "w_sleep"
    /\ WrapperLoopNext
    /\ ev' = NoEv
    /\ UNCHANGED <<envv, trkv, t_last, cfgv, orchv, recv, confv,
                   visited, retried_ok, ent_recov, sucv,
                   last_exception, f_result, calls, recs, wrapg>>
    /\ UNCHANGED stopv
    /\ UNCHANGED <<launchv, schedv>>

\* return_to_home called by the wrapper returns: its result is not looked at
RthReturnToWrapper ==
    /\ pc = "r_ret"
    /\ r_caller \in {"retry", "retry_handler"}
    /\ pc' = "w_sleep"
    /\ RecoveryLocalsGone
    /\ ev' = Ev("recovered", "", r_result, 0, 0)
    /\ UNCHANGED <<envv, trkv, t_last, cfgv, orchv, confv, ghostv,
                   attempt, last_exception, f_result, w_result, calls, recs, w_raised>>
    /\ UNCHANGED stopv
    /\ UNCHANGED <<launchv, schedv>>

\* return_to_home called by the wrapper raises.  Called in the try block
\* (after a falsy result) the exception is caught by the wrapper's own except
\* clause, which calls return_to_home once more for the same attempt; called in
\* the except clause the exception leaves the wrapper.
RthRaiseToWrapper ==
    /\ pc = "r_raise"
    /\ r_caller \in {"retry", "retry_handler"}
    /\ IF r_caller = "retry"
       THEN /\ last_exception' = TRUE
            /\ recs' = recs + 1
            /\ EnterReturnToHome("retry_handler", DefaultMaxAttempts)
            /\ UNCHANGED w_raised
       ELSE /\ w_raised' = TRUE
            /\ pc' = "o_ret"
            /\ RecoveryLocalsGone
            /\ UNCHANGED <<last_exception, recs, ent_recov>>
    /\ ev' = NoEv
    /\ UNCHANGED <<envv, trkv, t_last, cfgv, orchv, confv, visited, retried_ok, exhausted, sucv,
                   attempt, f_result, w_result, calls>>
    /\ UNCHANGED stopv
    /\ UNCHANGED <<launchv, schedv>>

\* ------------------------------------------------------- CharacterSwitcher
GameLoadWaitSeconds == 3     \* game_load_wait_seconds of the modelled instance
CheckInterval == 2
DismissCount == 3
PageSize == 6

\* rotation = int(np.ceil((index + 1) / 6))
Rotation(index) == (index + PageSize) \div PageSize

\* should_run_daily_task
ShouldRunDailyTaskNoForce(task) ==
    IF ~has_tracker THEN TRUE
    ELSE ~IsTaskCompletedToday(data, current_character_index, task, GetTodayUtc)
ShouldRunDailyTaskPreviousCharacter(task) ==
    IF ~has_tracker THEN TRUE
    ELSE IF force_daily_tasks THEN TRUE
    ELSE ~IsTaskCompletedToday(data, current_character_index - 1, task, GetTodayUtc)
ShouldRunDailyTask(task) ==
    IF ~has_tracker THEN TRUE
    ELSE IF force_daily_tasks THEN TRUE
    ELSE ~IsTaskCompletedToday(data, current_character_index, task, GetTodayUtc)

\* "if self.build.perform_build(...)": the truthy result marks the task
ShouldMarkAlways(out) == out # "raise"
ShouldMark(out) == out = "ok"

\* mark_daily_task_completed: mark_task_completed and the save it ends with
MarkDailyTaskCompleted(task) ==
    IF has_tracker
    THEN \E out \in WriteOutcomes :
           LET d == MarkTaskCompleted(data, current_character_index, task, GetTodayUtc) IN
           /\ data' = d
           /\ file' = SaveFile(d, out)
           /\ marked' = [marked EXCEPT ![current_character_index][task] = utc_day]
           /\ persisted' = Persisted(marked', out)
           /\ io_faults' = Faults(out)
    ELSE UNCHANGED trkv

\* the wrapped function returns res ("true", "false") or raises ("raise")
FuncReturn(res) ==
    /\ pc' = "w_ret"
    /\ f_result' = res

funcframe == <<envv, t_last, cfgv, orchv, recv, attempt, last_exception, w_result, calls, recs,
               wrapg, visited, retried_ok, exhausted, ent_recov>>

\* history: a step that was run, and one that was passed without running
Ran(step) == <<"ran", step>>
Skipped(step) == <<"skipped", step>>

\* _process_single_character: self.current_character_index = index
FuncEnter ==
    /\ pc = "f_enter"
    /\ current_character_index' = i
    /\ pc' = "open1"
    /\ ev' = NoEv
    /\ steps' = <<>>
    /\ sub_failed' = FALSE
    /\ UNCHANGED <<envv, trkv, t_last, cfgv, wrapv, recv, c_esc, elapsed, loading_detected, ghostv,
                   i, successful_characters, failed_characters, stopped_early, run_result>>
    /\ UNCHANGED stopv
    /\ UNCHANGED <<launchv, schedv>>

\* open_character_selection: three times a stop check, then a click
OpenStep(from, to) ==
    /\ pc = from
    /\ IF CheckStopRequested
       THEN /\ FuncReturn("false")
            /\ ev' = NoEv
            /\ UNCHANGED stepv
       ELSE \E ok \in Signal(TRUE) :
              /\ ev' = Ev("input", "", ok, 1, 0)
              /\ IF ok THEN pc' = to /\ UNCHANGED f_result
                       ELSE FuncReturn("false")
              /\ steps' = IF ok /\ to = "nav" THEN Append(steps, Ran("open")) ELSE steps
              /\ UNCHANGED sub_failed
    /\ UNCHANGED <<funcframe, trkv, c_esc, elapsed, loading_detected, sucv>>
    /\ StopChecked
    /\ UNCHANGED <<launchv, schedv>>

OpenCharacterSelection ==
    \/ OpenStep("open1", "open2")
    \/ OpenStep("open2", "open3")
    \/ OpenStep("open3", "nav")

\* navigate_to_character: stop check, the scrolls to the page, the click
NavigateToCharacter ==
    /\ pc = "nav"
    /\ IF CheckStopRequested
       THEN /\ FuncReturn("false")
            /\ ev' = NoEv
            /\ UNCHANGED stepv
       ELSE \E ok \in Signal(TRUE) :
              /\ ev' = [Ev("input", "", ok, 1, 0) EXCEPT
                          !.swipes = Rotation(current_character_index) - 1]
              /\ IF ok THEN pc' = "confirm" /\ UNCHANGED f_result
                       ELSE FuncReturn("false")
              /\ steps' = IF ok THEN Append(steps, Ran("navigate")) ELSE steps
              /\ UNCHANGED sub_failed
    /\ UNCHANGED <<funcframe, trkv, c_esc, elapsed, loading_detected, sucv>>
    /\ StopChecked
    /\ UNCHANGED <<launchv, schedv>>

\* confirm_character_switch up to the branch on the login dialog: the dialog
\* shows unless the character clicked is the one already logged in
ConfirmCharacterSwitch ==
    /\ pc = "confirm"
    /\ IF CheckStopRequested
       THEN /\ FuncReturn("false")
            /\ ev' = NoEv
            /\ UNCHANGED confv
       ELSE \E is_login_screen \in BOOLEAN :
              IF is_login_screen
              THEN \E ok \in Signal(TRUE) :
                     /\ ev' = Ev("input", "", ok, 1, 0)
                     /\ IF ok
                        THEN /\ pc' = "wait_load"
                             /\ elapsed' = 0
                             /\ loading_detected' = FALSE
                             /\ steps' = Append(steps, Ran("confirm"))
                             /\ UNCHANGED sub_failed
                             /\ UNCHANGED <<f_result, c_esc>>
                        ELSE /\ FuncReturn("false")
                             /\ UNCHANGED confv
              ELSE /\ pc' = "esc"
                   /\ c_esc' = 0
                   /\ ev' = NoEv
                   /\ steps' = Append(steps, Ran("confirm"))
                   /\ UNCHANGED sub_failed
                   /\ UNCHANGED <<f_result, elapsed, loading_detected>>
    /\ UNCHANGED <<funcframe, trkv, sucv>>
    /\ StopChecked
    /\ UNCHANGED <<launchv, schedv>>

\* "while elapsed < max_wait"
KeepPollingOneMore(el, max_wait) == el < max_wait + CheckInterval
KeepPolling(el, max_wait) == el < max_wait

\* history: wait_for_game_load returns res for the given reason after polls
\* calls of is_loading_screen and buffers sleeps of 3 seconds
WaitEnd(res, why, polls, buffers) ==
    [Ev("wait_end", why, res, 0, 0) EXCEPT !.evals = polls, !.buffers = buffers,
                                           !.seen = loading_detected]

\* wait_for_game_load: one pass of the polling loop, or the exit at max_wait;
\* its result is not looked at by confirm_character_switch
WaitForGameLoad ==
    /\ pc = "wait_load"
    /\ IF KeepPolling(elapsed, GameLoadWaitSeconds)
       THEN IF CheckStopRequested
            THEN /\ pc' = "post_load"
                 /\ ev' = WaitEnd(FALSE, "stopped", elapsed \div CheckInterval, 0)
                 /\ elapsed' = 0
                 /\ loading_detected' = FALSE
            ELSE \E is_loading \in Signal(FALSE) :
                   IF is_loading
                   THEN /\ loading_detected' = TRUE
                        /\ elapsed' = elapsed + CheckInterval
                        /\ ev' = Ev("poll", "", TRUE, 0, 0)
                        /\ UNCHANGED pc
                   ELSE IF loading_detected
                        THEN /\ pc' = "post_load"
                             /\ ev' = WaitEnd(TRUE, "cleared", elapsed \div CheckInterval + 1, 1)
                             /\ elapsed' = 0
                             /\ loading_detected' = FALSE
                        ELSE /\ elapsed' = elapsed + CheckInterval
                             /\ ev' = Ev("poll", "", FALSE, 0, 0)
                             /\ UNCHANGED <<pc, loading_detected>>
       ELSE /\ pc' = "post_load"
            /\ ev' = WaitEnd(TRUE, "max_wait", elapsed \div CheckInterval, 1)
            /\ elapsed' = 0
            /\ loading_detected' = FALSE
    /\ IF KeepPolling(elapsed, GameLoadWaitSeconds) THEN StopChecked ELSE UNCHANGED stopv
    /\ UNCHANGED <<funcframe, trkv, sucv, f_result, c_esc, stepv>>
    /\ UNCHANGED <<launchv, schedv>>

\* a stop check between two steps of the wrapped function
StopCheckWaits(from, to) ==
    /\ pc = from
    /\ CheckStopRequested
    /\ FuncReturn("false")
    /\ ev' = NoEv
    /\ UNCHANGED <<funcframe, trkv, confv, sucv>>
    /\ StopChecked
    /\ UNCHANGED <<launchv, schedv>>
StopCheck(from, to) ==
    /\ pc = from
    /\ IF CheckStopRequested
       THEN FuncReturn("false")
       ELSE pc' = to /\ UNCHANGED f_result
    /\ ev' = NoEv
    /\ UNCHANGED <<funcframe, trkv, confv, sucv>>
    /\ StopChecked
    /\ UNCHANGED <<launchv, schedv>>

\* the dismiss loop of confirm_character_switch (no login dialog seen)
DismissLoop ==
    /\ pc = "esc"
    /\ IF c_esc >= DismissCount
       THEN /\ pc' = "act0"
            /\ ev' = NoEv
            /\ c_esc' = 0
            /\ UNCHANGED f_result
       ELSE IF CheckStopRequested
            THEN /\ FuncReturn("false")
                 /\ ev' = NoEv
                 /\ c_esc' = 0
            ELSE /\ c_esc' = c_esc + 1
                 /\ ev' = Ev("input", "", TRUE, 0, 1)
                 /\ UNCHANGED <<pc, f_result>>
    /\ IF c_esc >= DismissCount THEN UNCHANGED stopv ELSE StopChecked
    /\ UNCHANGED <<funcframe, trkv, sucv, elapsed, loading_detected, stepv>>
    /\ UNCHANGED <<launchv, schedv>>

\* perform_character_actions: the gate of a daily task
DailyGate(task, enabled, from, run, next) ==
    /\ pc = from
    /\ IF ~enabled
       THEN /\ pc' = next
            /\ ev' = NoEv
            /\ steps' = Append(steps, Skipped(task))
       ELSE /\ ev' = Ev("gate", task, ShouldRunDailyTask(task), 0, 0)
            /\ pc' = IF ShouldRunDailyTask(task) THEN run ELSE next
            /\ steps' = IF ShouldRunDailyTask(task) THEN steps
                                                   ELSE Append(steps, Skipped(task))
    /\ UNCHANGED <<funcframe, trkv, c_esc, elapsed, loading_detected, sucv, f_result>>
    /\ UNCHANGED sub_failed
    /\ UNCHANGED stopv
    /\ UNCHANGED <<launchv, schedv>>

\* variant: a False result of the automation ends the attempt with False
DailyRunFailFails(task, from, next) ==
    /\ pc = from
    /\ \E out \in {"ok", "fail", "raise"} :
         /\ ev' = [Ev("ran", task, out = "ok", 0, 0) EXCEPT
                     !.mark = ShouldMark(out) /\ has_tracker]
         /\ IF out = "raise" THEN FuncReturn("raise")
            ELSE IF out = "fail" THEN FuncReturn("false")
            ELSE pc' = next /\ UNCHANGED f_result
         /\ sub_failed' = (sub_failed \/ out = "fail")
         /\ IF ShouldMark(out) THEN MarkDailyTaskCompleted(task)
                               ELSE UNCHANGED trkv
         /\ succ' = IF out = "ok" /\ has_tracker
                    THEN [succ EXCEPT ![current_character_index][task] = utc_day]
                    ELSE succ
         /\ now_succ' = IF out = "ok" /\ has_tracker
                        THEN [now_succ EXCEPT ![task] = utc_day]
                        ELSE now_succ
    /\ steps' = Append(steps, Ran(task))
    /\ UNCHANGED <<funcframe, c_esc, elapsed, loading_detected>>
    /\ UNCHANGED stopv
    /\ UNCHANGED <<launchv, schedv>>

\* the automation of a daily task runs; success marks the task at once
DailyRun(task, from, next) ==
    /\ pc = from
    /\ \E out \in {"ok", "fail", "raise"} :
         /\ ev' = [Ev("ran", task, out = "ok", 0, 0) EXCEPT
                     !.mark = ShouldMark(out) /\ has_tracker]
         /\ IF out = "raise" THEN FuncReturn("raise")
                             ELSE pc' = next /\ UNCHANGED f_result
         /\ sub_failed' = (sub_failed \/ out = "fail")
         /\ IF ShouldMark(out) THEN MarkDailyTaskCompleted(task)
                               ELSE UNCHANGED trkv
         /\ succ' = IF out = "ok" /\ has_tracker
                    THEN [succ EXCEPT ![current_character_index][task] = utc_day]
                    ELSE succ
         /\ now_succ' = IF out = "ok" /\ has_tracker
                        THEN [now_succ EXCEPT ![task] = utc_day]
                        ELSE now_succ
    /\ steps' = Append(steps, Ran(task))
    /\ UNCHANGED <<funcframe, c_esc, elapsed, loading_detected>>
    /\ UNCHANGED stopv
    /\ UNCHANGED <<launchv, schedv>>

\* the donation runs every cycle; its result is not looked at
Donation ==
    /\ pc = "don"
    /\ IF will.donation
       THEN \E out \in {"ok", "fail", "raise"} :
              /\ ev' = Ev("donation", "", out = "ok", 0, 0)
              /\ FuncReturn(IF out = "raise" THEN "raise" ELSE "true")
              /\ sub_failed' = (sub_failed \/ out = "fail")
       ELSE /\ ev' = NoEv
            /\ FuncReturn("true")
            /\ UNCHANGED sub_failed
    /\ steps' = Append(steps, IF will.donation THEN Ran("donation")
                                                ELSE Skipped("donation"))
    /\ UNCHANGED <<funcframe, trkv, c_esc, elapsed, loading_detected, sucv>>
    /\ UNCHANGED stopv
    /\ UNCHANGED <<launchv, schedv>>

PerformCharacterActionsExpeditionFirst ==
    \/ StopCheck("act0", "exp_gate")
    \/ DailyGate(TASK_EXPEDITION, will.expedition, "exp_gate", "exp_run", "mid1")
    \/ DailyRun(TASK_EXPEDITION, "exp_run", "mid1")
    \/ StopCheck("mid1", "build_gate")
    \/ DailyGate(TASK_BUILD, will.build, "build_gate", "build_run", "mid2")
    \/ DailyRun(TASK_BUILD, "build_run", "mid2")
    \/ StopCheck("mid2", "don")
    \/ Donation
PerformCharacterActions ==
    \/ StopCheck("act0", "build_gate")
    \/ DailyGate(TASK_BUILD, will.build, "build_gate", "build_run", "mid1")
    \/ DailyRun(TASK_BUILD, "build_run", "mid1")
    \/ StopCheck("mid1", "exp_gate")
    \/ DailyGate(TASK_EXPEDITION, will.expedition, "exp_gate", "exp_run", "mid2")
    \/ DailyRun(TASK_EXPEDITION, "exp_run", "mid2")
    \/ StopCheck("mid2", "don")
    \/ Donation

\* ------------------------------------------------ switch_all_characters
\* a run starts: the automation thread builds its tracker from the file and a
\* CharacterSwitcher, and calls switch_all_characters(start_from); its stop
\* event is new, and may have been set before the call is reached
NewRun(s, force) ==
    /\ pc \in {"idle", "done", "crashed"}
    /\ start_from' = s
    /\ force_daily_tasks' = force
    /\ stop' \in BOOLEAN
    /\ pre_stopped' = stop'
    /\ stopped_in' = -1
    /\ stop_seen' = FALSE
    /\ IF has_tracker
       THEN /\ data' = LoadTrackingData(file)
            /\ marked' = persisted
       ELSE UNCHANGED <<data, marked>>
    /\ i' = s
    /\ successful_characters' = 0
    /\ failed_characters' = <<>>
    /\ stopped_early' = FALSE
    /\ visited' = <<>>
    /\ retried_ok' = FALSE
    /\ exhausted' = {}
    /\ ent_recov' = 0
    /\ now_succ' = NoTaskDays
    /\ run_result' = TRUE
    /\ current_character_index' = 0
    /\ pc' = "loop"
    /\ ev' = NoEv
    /\ UNCHANGED <<utc_day, env_faults, file, persisted, io_faults, t_last, config, has_recovery,
                   has_tracker, will, missing_region, num_of_chars, wrapv, recv, confv, succ>>
    /\ UNCHANGED <<launchv, schedv>>

\* "for i in range(start_from, self.num_of_chars)" and the stop check that
\* opens each iteration; the wrapper is entered for index i
LoopHeadNoStopCheck ==
    /\ pc = "loop"
    /\ IF i >= num_of_chars
       THEN /\ pc' = "summary"
            /\ UNCHANGED <<stopped_early, attempt, last_exception, calls, recs,
                           visited, ent_recov, now_succ>>
       ELSE IF FALSE
            THEN /\ stopped_early' = TRUE
                 /\ pc' = "summary"
                 /\ UNCHANGED <<attempt, last_exception, calls, recs, visited, ent_recov,
                                now_succ>>
            ELSE /\ attempt' = 0
                 /\ last_exception' = FALSE
                 /\ calls' = 0
                 /\ recs' = 0
                 /\ visited' = Append(visited, i)
                 /\ ent_recov' = 0
                 /\ now_succ' = NoTaskDays
                 /\ pc' = "w_call"
                 /\ UNCHANGED stopped_early
    /\ IF i >= num_of_chars THEN UNCHANGED stopv ELSE StopChecked
    /\ ev' = NoEv
    /\ UNCHANGED <<envv, trkv, t_last, cfgv, recv, confv, retried_ok, exhausted, succ,
                   f_result, w_result, wrapg, i, successful_characters, failed_characters,
                   run_result, current_character_index>>
    /\ UNCHANGED <<launchv, schedv>>
LoopHead ==
    /\ pc = "loop"
    /\ IF i >= num_of_chars
       THEN /\ pc' = "summary"
            /\ UNCHANGED <<stopped_early, attempt, last_exception, calls, recs,
                           visited, ent_recov, now_succ>>
       ELSE IF CheckStopRequested
            THEN /\ stopped_early' = TRUE
                 /\ pc' = "summary"
                 /\ UNCHANGED <<attempt, last_exception, calls, recs, visited, ent_recov,
                                now_succ>>
            ELSE /\ attempt' = 0
                 /\ last_exception' = FALSE
                 /\ calls' = 0
                 /\ recs' = 0
                 /\ visited' = Append(visited, i)
                 /\ ent_recov' = 0
                 /\ now_succ' = NoTaskDays
                 /\ pc' = "w_call"
                 /\ UNCHANGED stopped_early
    /\ IF i >= num_of_chars THEN UNCHANGED stopv ELSE StopChecked
    /\ ev' = NoEv
    /\ UNCHANGED <<envv, trkv, t_last, cfgv, recv, confv, retried_ok, exhausted, succ,
                   f_result, w_result, wrapg, i, successful_characters, failed_characters,
                   run_result, current_character_index>>
    /\ UNCHANGED <<launchv, schedv>>

\* the wrapper has returned or raised: count the success, or record the
\* failure (1-based) and try to return to home before the next character,
\* in the try block after a falsy result, in the except clause after an exception
AfterProcess ==
    /\ pc = "o_ret"
    /\ IF w_raised
       THEN /\ failed_characters' = Append(failed_characters, i + 1)
            /\ EnterReturnToHome("bulkhead_handler", BulkheadMaxAttempts)
            /\ UNCHANGED <<successful_characters, i>>
       ELSE IF w_result
            THEN /\ successful_characters' = successful_characters + 1
                 /\ i' = i + 1
                 /\ pc' = "loop"
                 /\ UNCHANGED <<failed_characters, recv, ent_recov>>
            ELSE /\ failed_characters' = Append(failed_characters, i + 1)
                 /\ EnterReturnToHome("bulkhead", BulkheadMaxAttempts)
                 /\ UNCHANGED <<successful_characters, i>>
    /\ retried_ok' = (retried_ok \/ (~w_raised /\ w_result /\ attempt > 0))
    /\ WrapperLocalsGone
    /\ ev' = NoEv
    /\ UNCHANGED <<envv, trkv, t_last, cfgv, confv, visited, exhausted, sucv,
                   stopped_early, run_result, current_character_index>>
    /\ UNCHANGED stopv
    /\ UNCHANGED <<launchv, schedv>>

\* return_to_home(max_attempts=3) returns: on to the next index
RthReturnToLoop ==
    /\ pc = "r_ret"
    /\ r_caller \in {"bulkhead", "bulkhead_handler"}
    /\ i' = i + 1
    /\ pc' = "loop"
    /\ RecoveryLocalsGone
    /\ ev' = NoEv
    /\ UNCHANGED <<envv, trkv, t_last, cfgv, wrapv, confv, ghostv,
                   successful_characters, failed_characters, stopped_early, run_result,
                   current_character_index>>
    /\ UNCHANGED stopv
    /\ UNCHANGED <<launchv, schedv>>

\* return_to_home(max_attempts=3) raises.  Called in the try block, the except
\* clause records the index once more and calls return_to_home again; called
\* in the except clause, the exception leaves switch_all_characters.
RthRaiseToLoop ==
    /\ pc = "r_raise"
    /\ r_caller \in {"bulkhead", "bulkhead_handler"}
    /\ IF r_caller = "bulkhead"
       THEN /\ failed_characters' = Append(failed_characters, i + 1)
            /\ EnterReturnToHome("bulkhead_handler", BulkheadMaxAttempts)
       ELSE /\ pc' = "crashed"
            /\ RecoveryLocalsGone
            /\ UNCHANGED <<failed_characters, ent_recov>>
    /\ ev' = NoEv
    /\ UNCHANGED <<envv, trkv, t_last, cfgv, wrapv, confv, visited, retried_ok, exhausted, sucv,
                   i, successful_characters, stopped_early, run_result,
                   current_character_index>>
    /\ UNCHANGED stopv
    /\ UNCHANGED <<launchv, schedv>>

\* the summary and "return len(failed_characters) == 0"
Summary ==
    /\ pc = "summary"
    /\ run_result' = (Len(failed_characters) = 0)
    /\ pc' = "done"
    /\ ev' = NoEv
    /\ UNCHANGED <<envv, trkv, t_last, cfgv, wrapv, recv, confv, ghostv,
                   i, successful_characters, failed_characters, stopped_early,
                   current_character_index>>
    /\ UNCHANGED stopv
    /\ UNCHANGED <<launchv, schedv>>

\* MultiInstanceManagerGUI.reset_daily_tasks: a second tracker object is
\* built on the same file and reset_all_tasks is called on it
GuiResetDailyTasks ==
    /\ \E out \in WriteOutcomes :
         /\ file' = SaveFile(ResetAllTasks(LoadTrackingData(file)), out)
         /\ persisted' = Persisted(NoMarks, out)
         /\ io_faults' = Faults(out)
         /\ succ' = IF out = "refused" THEN succ ELSE NoMarks
    /\ UNCHANGED <<envv, data, marked, t_last, cfgv, pc, orchv, wrapv, recv, confv, ev,
                   visited, retried_ok, exhausted, ent_recov, now_succ>>
    /\ UNCHANGED stopv
    /\ UNCHANGED <<launchv, schedv>>

\* the steps of switch_all_characters and of everything it calls
RunSteps ==
    \/ LoopHead
    \/ WrapperAttempt
    \/ FuncEnter
    \/ OpenCharacterSelection
    \/ NavigateToCharacter
    \/ ConfirmCharacterSwitch
    \/ WaitForGameLoad
    \/ StopCheck("post_load", "act0")
    \/ DismissLoop
    \/ PerformCharacterActions
    \/ WrapperAfterAttempt
    \/ WrapperSleep
    \/ RthHead
    \/ RthClassify
    \/ RthAct
    \/ RthReturnToWrapper
    \/ RthRaiseToWrapper
    \/ AfterProcess
    \/ RthReturnToLoop
    \/ RthRaiseToLoop
    \/ Summary

\* the coordinates file has every OCR region, or lacks 'kingdom_check', the
\* region of the map screen check
MissingRegions == {0, 4}

\* the tasks a run performs: all of them or none
AllEnabled == [build |-> TRUE, expedition |-> TRUE, donation |-> TRUE]
NoneEnabled == [build |-> FALSE, expedition |-> FALSE, donation |-> FALSE]
WillConfigs == {AllEnabled, NoneEnabled}
\* the daily tasks with and without the donation
DailyOnly == [build |-> TRUE, expedition |-> TRUE, donation |-> FALSE]
DailyWillConfigs == {AllEnabled, DailyOnly}

\* Spec: runs of a CharacterSwitcher built without a daily task tracker, on
\* an emulator with faults, with stop requests
Init ==
    \E w \in WillConfigs, n \in 0 .. MaxChars, region \in MissingRegions :
        InitWith(ProcessRetryConfig, TRUE, FALSE, TRUE, w, n, MissingFile, region, NoScheduleFile)

Next ==
    \/ RequestStop
    \/ \E s \in 0 .. num_of_chars : NewRun(s, FALSE)
    \/ RunSteps

Spec == Init /\ [][Next]_vars

\* SpecDaily: runs with a tracker on the instance's file, UTC day changes and
\* resets from the GUI.  The emulator has no faults, the automations fail or
\* raise; every run resumes at the last character of the instance.
DailyInit ==
    \E w \in DailyWillConfigs, region \in MissingRegions :
        InitWith(ProcessRetryConfig, TRUE, TRUE, FALSE, w, DailyChars, MissingFile, region, NoScheduleFile)

DailyNext ==
    \/ \E force \in BOOLEAN : NewRun(num_of_chars - 1, force)
    \/ RunSteps
    \/ Tick
    \/ GuiResetDailyTasks

SpecDaily == DailyInit /\ [][DailyNext]_vars

\* SpecLive: the runs of Spec, where the automation thread keeps running: each
\* call it makes returns, so a step of the run that can be taken is taken
LiveInit ==
    \E w \in WillConfigs, n \in 0 .. LiveChars, region \in MissingRegions :
        InitWith(ProcessRetryConfig, TRUE, FALSE, TRUE, w, n, MissingFile, region, NoScheduleFile)

SpecLive == LiveInit /\ [][Next]_vars /\ WF_vars(RunSteps)

\* ------------------------------------------- the launcher and its threads
\* everything of the single automation run stays as it is
runv == <<envv, trkv, t_last, cfgv, pc, orchv, wrapv, recv, confv, ev, ghostv, stopv>>

\* history: launch_instance(id) returned res; known and config tell whether
\* get_instance and get_config_manager gave a value
LLaunch(id, res, known, cfg) ==
    [op |-> "launch", inst |-> id, res |-> res, raised |-> FALSE,
     known |-> known, config |-> cfg]

\* a new AutomationThread with its new stop event
NewThread(id) == [instance |-> id, stop_event |-> FALSE, alive |-> TRUE]

\* launch_instance(id): refused when the id is registered, when the instance
\* manager does not know the id or has no config manager for it; otherwise a
\* new stop event and a new AutomationThread are created, registered and started
LaunchInstanceNoCheck(id) ==
    /\ \E known, cfg \in BOOLEAN :
         IF ~known \/ ~cfg
         THEN /\ l_last' = LLaunch(id, FALSE, known, cfg)
              /\ UNCHANGED <<running_threads, threads>>
         ELSE /\ Len(threads) < MaxLaunches
              /\ threads' = Append(threads, NewThread(id))
              /\ running_threads' = [running_threads EXCEPT ![id] = Len(threads) + 1]
              /\ l_last' = LLaunch(id, TRUE, known, cfg)
    /\ UNCHANGED <<stores, req, runv, schedv>>
LaunchInstance(id) ==
    /\ \E known, cfg \in BOOLEAN :
         IF running_threads[id] # 0 \/ ~known \/ ~cfg
         THEN /\ l_last' = LLaunch(id, FALSE, known, cfg)
              /\ UNCHANGED <<running_threads, threads>>
         ELSE /\ Len(threads) < MaxLaunches
              /\ threads' = Append(threads, NewThread(id))
              /\ running_threads' = [running_threads EXCEPT ![id] = Len(threads) + 1]
              /\ l_last' = LLaunch(id, TRUE, known, cfg)
    /\ UNCHANGED <<stores, req, runv, schedv>>

\* stop_instance(id), "if instance_id not in self.running_threads: return False"
StopInstanceCheck(r, id) ==
    /\ req[r].pc = "idle"
    /\ IF running_threads[id] = 0
       THEN /\ l_last' = LCall("stop", id, FALSE, FALSE)
            /\ UNCHANGED req
       ELSE /\ req' = [req EXCEPT ![r] = [pc |-> "set", inst |-> id]]
            /\ UNCHANGED l_last
    /\ UNCHANGED <<running_threads, threads, stores, runv, schedv>>

\* "thread, stop_event = self.running_threads[instance_id]; stop_event.set()":
\* KeyError when the entry has been removed since the check
StopInstanceSet(r) ==
    /\ req[r].pc = "set"
    /\ IF running_threads[req[r].inst] = 0
       THEN /\ l_last' = LCall("stop", req[r].inst, FALSE, TRUE)
            /\ req' = [req EXCEPT ![r] = NoRequest]
            /\ UNCHANGED threads
       ELSE /\ threads' = [threads EXCEPT ![running_threads[req[r].inst]].stop_event = TRUE]
            /\ req' = [req EXCEPT ![r].pc = "del"]
            /\ UNCHANGED l_last
    /\ UNCHANGED <<running_threads, stores, runv, schedv>>

\* "del self.running_threads[instance_id]; return True": KeyError when the
\* entry has been removed since the event was fetched
StopInstanceDel(r) ==
    /\ req[r].pc = "del"
    /\ IF running_threads[req[r].inst] = 0
       THEN /\ l_last' = LCall("stop", req[r].inst, FALSE, TRUE)
            /\ UNCHANGED running_threads
       ELSE /\ running_threads' = [running_threads EXCEPT ![req[r].inst] = 0]
            /\ l_last' = LCall("stop", req[r].inst, TRUE, FALSE)
    /\ req' = [req EXCEPT ![r] = NoRequest]
    /\ UNCHANGED <<threads, stores, runv, schedv>>

\* AutomationThread.run comes to its end, after it has seen its stop event set
\* or for any other reason; its finally clause calls _on_thread_complete,
\* which removes the entry of the instance id when there is one
ThreadComplete(k) ==
    /\ k \in 1 .. Len(threads)
    /\ threads[k].alive
    /\ threads' = [threads EXCEPT ![k].alive = FALSE]
    /\ running_threads' = [running_threads EXCEPT ![threads[k].instance] = 0]
    /\ l_last' = LCall("complete", threads[k].instance, TRUE, FALSE)
    /\ UNCHANGED <<stores, req, runv, schedv>>

\* a running thread records a completion: its tracker is built on the path
\* of its instance id
ThreadMark(k, t) ==
    /\ k \in 1 .. Len(threads)
    /\ threads[k].alive
    /\ stores' = [stores EXCEPT
                    ![GetTrackerPathForInstance(InstancesDir, threads[k].instance)] = @ \cup {t}]
    /\ l_last' = LCall("mark", threads[k].instance, TRUE, FALSE)
    /\ UNCHANGED <<running_threads, threads, req, runv, schedv>>

\* MultiInstanceManagerGUI.reset_daily_tasks for the selected instance
ResetDailyTasks(id) ==
    /\ stores[GetTrackerPathForInstance(InstancesDir, id)] # {}
    /\ stores' = [stores EXCEPT ![GetTrackerPathForInstance(InstancesDir, id)] = {}]
    /\ l_last' = LCall("reset", id, TRUE, FALSE)
    /\ UNCHANGED <<running_threads, threads, req, runv, schedv>>

\* SpecLauncher: a launcher with two instances; launches, stop requests from
\* two threads, threads that end, completions (of the build task) and resets
LauncherInitial ==
    InitWith(ProcessRetryConfig, TRUE, FALSE, FALSE, AllEnabled, 0, MissingFile, 0, NoScheduleFile)

LauncherNext ==
    \/ \E id \in Instances : LaunchInstance(id)
    \/ \E r \in Requesters, id \in Instances : StopInstanceCheck(r, id)
    \/ \E r \in Requesters : StopInstanceSet(r)
    \/ \E r \in Requesters : StopInstanceDel(r)
    \/ \E k \in 1 .. MaxLaunches : ThreadComplete(k)
    \/ \E k \in 1 .. MaxLaunches : ThreadMark(k, TASK_BUILD)
    \/ \E id \in Instances : ResetDailyTasks(id)

SpecLauncher == LauncherInitial /\ [][LauncherNext]_vars

\* ------------------------------------------- calls of the tracker's methods
\* everything but the tracker, the day and the call history stays as it is
trackerframe == <<stop, env_faults, config, has_recovery, num_of_chars, start_from,
                  force_daily_tasks, will, missing_region, pc, orchv, wrapv, recv, confv, ev,
                  ghostv, stopv>>

\* history: the call raised
TRaised(op, c, t) ==
    [op |-> op, c |-> c, t |-> t, res |-> FALSE, raised |-> TRUE, out |-> "none"]

\* mark_task_completed(c, t), with the save it ends with; the history keeps
\* whether the file was written
TMarkRollsBack(c, t) ==
    /\ pc = "idle"
    /\ has_tracker
    /\ IF CharactersRaises(data)
       THEN /\ t_last' = TRaised("mark", c, t)
            /\ UNCHANGED trkv
       ELSE \E out \in WriteOutcomes :
              LET d == MarkTaskCompleted(data, c, t, GetTodayUtc) IN
              /\ data' = IF out = "written" THEN d ELSE data
              /\ file' = SaveFile(d, out)
              /\ marked' = [marked EXCEPT ![c][t] = utc_day]
              /\ persisted' = Persisted(marked', out)
              /\ io_faults' = Faults(out)
              /\ t_last' = [op |-> "mark", c |-> c, t |-> t, res |-> out = "written",
                            raised |-> FALSE, out |-> out]
    /\ UNCHANGED <<utc_day, has_tracker, trackerframe>>
    /\ UNCHANGED <<launchv, schedv>>
TMark(c, t) ==
    /\ pc = "idle"
    /\ has_tracker
    /\ IF CharactersRaises(data)
       THEN /\ t_last' = TRaised("mark", c, t)
            /\ UNCHANGED trkv
       ELSE \E out \in WriteOutcomes :
              LET d == MarkTaskCompleted(data, c, t, GetTodayUtc) IN
              /\ data' = d
              /\ file' = SaveFile(d, out)
              /\ marked' = [marked EXCEPT ![c][t] = utc_day]
              /\ persisted' = Persisted(marked', out)
              /\ io_faults' = Faults(out)
              /\ t_last' = [op |-> "mark", c |-> c, t |-> t, res |-> out = "written",
                            raised |-> FALSE, out |-> out]
    /\ UNCHANGED <<utc_day, has_tracker, trackerframe>>
    /\ UNCHANGED <<launchv, schedv>>

\* is_task_completed_today(c, t)
TQuery(c, t) ==
    /\ pc = "idle"
    /\ has_tracker
    /\ t_last' = IF CharactersRaises(data)
                 THEN TRaised("query", c, t)
                 ELSE [op |-> "query", c |-> c, t |-> t,
                       res |-> IsTaskCompletedToday(data, c, t, GetTodayUtc),
                       raised |-> FALSE, out |-> "none"]
    /\ UNCHANGED <<utc_day, trkv, has_tracker, trackerframe>>
    /\ UNCHANGED <<launchv, schedv>>

\* reset_all_tasks(), with the save it ends with
TResetAll ==
    /\ pc = "idle"
    /\ has_tracker
    /\ IF ResetAllRaises(data)
       THEN /\ t_last' = TRaised("reset_all", 0, TASK_BUILD)
            /\ UNCHANGED trkv
       ELSE /\ \E out \in WriteOutcomes :
                 LET d == ResetAllTasks(data) IN
                 /\ data' = d
                 /\ file' = SaveFile(d, out)
                 /\ persisted' = Persisted(NoMarks, out)
                 /\ io_faults' = Faults(out)
                 /\ t_last' = [op |-> "reset_all", c |-> 0, t |-> TASK_BUILD,
                               res |-> \E c \in TChars, t \in Tasks : marked[c][t] = utc_day,
                               raised |-> FALSE, out |-> out]
            /\ marked' = NoMarks
    /\ UNCHANGED <<utc_day, has_tracker, trackerframe>>
    /\ UNCHANGED <<launchv, schedv>>

\* reset_tasks_for_character(c): saves only when the character has a record
TResetChar(c) ==
    /\ pc = "idle"
    /\ has_tracker
    /\ IF CharactersRaises(data)
       THEN /\ t_last' = TRaised("reset_char", c, TASK_BUILD)
            /\ UNCHANGED trkv
       ELSE /\ IF c \in data.keys
               THEN \E out \in WriteOutcomes :
                      LET d == ResetTasksForCharacter(data, c) IN
                      /\ data' = d
                      /\ file' = SaveFile(d, out)
                      /\ marked' = [marked EXCEPT ![c] = [t \in Tasks |-> 0]]
                      /\ persisted' = Persisted(marked', out)
                      /\ io_faults' = Faults(out)
                      /\ t_last' = [op |-> "reset_char", c |-> c, t |-> TASK_BUILD,
                                    res |-> TRUE, raised |-> FALSE, out |-> out]
               ELSE /\ t_last' = [op |-> "reset_char", c |-> c, t |-> TASK_BUILD,
                                  res |-> FALSE, raised |-> FALSE, out |-> "none"]
                    /\ UNCHANGED trkv
    /\ UNCHANGED <<utc_day, has_tracker, trackerframe>>
    /\ UNCHANGED <<launchv, schedv>>

\* DailyTaskTracker(path): a new tracker object is built on the file, or the
\* constructor raises and there is no tracker
TReload ==
    /\ pc = "idle"
    /\ data' = LoadTrackingData(file)
    /\ marked' = persisted
    /\ has_tracker' = ~LoadRaises(file)
    /\ t_last' = [TLastInit EXCEPT !.op = "load", !.raised = LoadRaises(file)]
    /\ UNCHANGED <<utc_day, file, persisted, io_faults, trackerframe>>
    /\ UNCHANGED <<launchv, schedv>>

\* what the tracking file can hold when the first tracker is built: nothing,
\* text that is not JSON, bytes that are not text, a document with or without
\* entries (of one character, of two), an object without "characters", a JSON
\* value that is not an object
FileContents ==
    {MissingFile,
     [state |-> "corrupt", doc |-> EmptyDoc],
     [state |-> "undecodable", doc |-> EmptyDoc],
     [state |-> "ok", doc |-> EmptyDoc],
     [state |-> "ok", doc |-> [shape |-> "document", keys |-> {0},
                               entries |-> {<<0, TASK_BUILD, 1>>}]],
     [state |-> "ok", doc |-> [shape |-> "document", keys |-> {0, 1},
                               entries |-> {<<0, TASK_BUILD, 1>>, <<1, TASK_BUILD, 1>>}]],
     [state |-> "ok", doc |-> [EmptyDoc EXCEPT !.shape = "no_characters"]],
     [state |-> "ok", doc |-> [EmptyDoc EXCEPT !.shape = "not_object"]]}

\* SpecTracker: calls of the methods of one tracker, restarts and day changes
TrackerInit ==
    \E f \in FileContents :
        InitWith(ProcessRetryConfig, TRUE, TRUE, FALSE, AllEnabled, 0, f, 0, NoScheduleFile)

TrackerNext ==
    \/ Tick
    \/ \E c \in TChars, t \in Tasks : TMark(c, t)
    \/ \E c \in TChars, t \in Tasks : TQuery(c, t)
    \/ TResetAll
    \/ \E c \in TChars : TResetChar(c)
    \/ TReload

SpecTracker == TrackerInit /\ [][TrackerNext]_vars

\* ------------------------------- calls of a wrapped method and of recovery
\* a method decorated with with_retry(config) is called
RetryCall ==
    /\ pc = "idle"
    /\ pc' = "w_call"
    /\ ev' = NoEv
    /\ UNCHANGED <<envv, trkv, t_last, cfgv, orchv, wrapv, recv, confv, ghostv>>
    /\ UNCHANGED stopv
    /\ UNCHANGED <<launchv, schedv>>

\* the wrapped method runs: it returns a truthy or a falsy value, or raises
WrappedFunc ==
    /\ pc = "f_enter"
    /\ \E out \in {"true", "false", "raise"} :
         /\ FuncReturn(out)
         /\ ev' = Ev("func", "", out = "true", 0, 0)
    /\ UNCHANGED <<funcframe, trkv, confv, sucv>>
    /\ UNCHANGED stopv
    /\ UNCHANGED <<launchv, schedv>>

\* the wrapper returns to its caller, or its exception reaches the caller
RetryReturn ==
    /\ pc = "o_ret"
    /\ pc' = "idle"
    /\ WrapperLocalsGone
    /\ retried_ok' = FALSE
    /\ exhausted' = {}
    /\ ent_recov' = 0
    /\ ev' = Ev(IF w_raised THEN "wrapper_raised" ELSE "wrapper_returned", "", w_result, 0, 0)
    /\ UNCHANGED <<envv, trkv, t_last, cfgv, orchv, recv, confv, visited, sucv>>
    /\ UNCHANGED stopv
    /\ UNCHANGED <<launchv, schedv>>

\* recovery.return_to_home(max_attempts) is called directly
DirectCall(max_attempts) ==
    /\ pc = "idle"
    /\ EnterReturnToHome("direct", max_attempts)
    /\ ev' = NoEv
    /\ UNCHANGED <<envv, trkv, t_last, cfgv, orchv, wrapv, confv, visited, retried_ok,
                   exhausted, sucv>>
    /\ UNCHANGED stopv
    /\ UNCHANGED <<launchv, schedv>>

\* the direct call returns
RthReturnDirect ==
    /\ pc = "r_ret"
    /\ r_caller = "direct"
    /\ pc' = "idle"
    /\ RecoveryLocalsGone
    /\ ent_recov' = 0
    /\ ev' = NoEv
    /\ UNCHANGED <<envv, trkv, t_last, cfgv, orchv, wrapv, confv, visited, retried_ok,
                   exhausted, sucv>>
    /\ UNCHANGED stopv
    /\ UNCHANGED <<launchv, schedv>>

\* recovery.get_current_screen() is called directly
DirectClassify ==
    /\ pc = "idle"
    /\ \E obs \in Observations :
         ev' = IF GetCurrentScreenRaises(CheckStopRequested, obs)
               THEN [Ev("screen_raised", "", CheckStopRequested, 0, 0) EXCEPT !.obs = obs]
               ELSE [Ev("screen", GetCurrentScreen(CheckStopRequested, obs),
                        CheckStopRequested, 0, 0)
                       EXCEPT !.obs = obs,
                              !.evals = ChecksEvaluated(CheckStopRequested, obs)]
    /\ StopChecked
    /\ UNCHANGED <<envv, trkv, t_last, cfgv, pc, orchv, wrapv, recv, confv, ghostv>>
    /\ UNCHANGED <<launchv, schedv>>

\* the exception of a direct call reaches the caller
RthRaiseDirect ==
    /\ pc = "r_raise"
    /\ r_caller = "direct"
    /\ pc' = "idle"
    /\ RecoveryLocalsGone
    /\ ent_recov' = 0
    /\ ev' = Ev("recovery_raised", "", FALSE, 0, 0)
    /\ UNCHANGED <<envv, trkv, t_last, cfgv, orchv, wrapv, confv, visited, retried_ok,
                   exhausted, sucv>>
    /\ UNCHANGED stopv
    /\ UNCHANGED <<launchv, schedv>>

\* SpecRecovery: calls of a method wrapped with any RetryConfig, on an object
\* with or without a recovery manager, and direct calls of return_to_home
RecoveryInit ==
    \E k \in 0 .. MaxRetries, home \in BOOLEAN, rec \in BOOLEAN, region \in MissingRegions :
        InitWith([max_retries |-> k, recover_to_home |-> home], rec, FALSE, TRUE,
                 AllEnabled, 0, MissingFile, region, NoScheduleFile)

RecoveryNext ==
    \/ RequestStop
    \/ RetryCall
    \/ WrapperAttempt
    \/ WrappedFunc
    \/ WrapperAfterAttempt
    \/ WrapperSleep
    \/ RthReturnToWrapper
    \/ RthRaiseToWrapper
    \/ RetryReturn
    \/ \E m \in 0 .. MaxDirect : DirectCall(m)
    \/ DirectClassify
    \/ RthHead
    \/ RthClassify
    \/ RthAct
    \/ RthReturnDirect
    \/ RthRaiseDirect

SpecRecovery == RecoveryInit /\ [][RecoveryNext]_vars

\* ---------------------------------------------- calls of ScheduleManager
\* datetime.now(timezone.utc)
NowUtc == [aware |-> TRUE, t |-> utc_now]

\* variant: due only after next_run_utc has passed
IsDueStrict(f, now) ==
    LET schedule == GetSchedule(f)
        next_run_str == schedule.next_run_utc
    IN  IF ~schedule.enabled THEN FALSE
        ELSE IF ~Truthy(next_run_str) THEN TRUE
        ELSE IF FromIsoFormatRaises(next_run_str) THEN TRUE
        ELSE IF CompareRaises(now, FromIsoFormat(next_run_str)) THEN TRUE
        ELSE now.t > FromIsoFormat(next_run_str).t

\* is_due on a schedule that get_schedule returned: the parse and the
\* comparison are in one try block, whose except clause returns True
IsDue(f, now) ==
    LET schedule == GetSchedule(f)
        next_run_str == schedule.next_run_utc
    IN  IF ~schedule.enabled THEN FALSE
        ELSE IF ~Truthy(next_run_str) THEN TRUE
        ELSE IF FromIsoFormatRaises(next_run_str) THEN TRUE
        ELSE IF CompareRaises(now, FromIsoFormat(next_run_str)) THEN TRUE
        ELSE now.t >= FromIsoFormat(next_run_str).t

\* save_schedule: the file is replaced; an IOError is logged and swallowed,
\* with the file left as it was or left truncated
ScheduleWrites == {"written", "refused", "torn"}
SaveSchedule(schedule, out) ==
    schedule_file' = CASE out = "written" -> [kind |-> "document", doc |-> schedule]
                       [] out = "refused" -> schedule_file
                       [] out = "torn" -> InvalidScheduleFile

\* history: a torn file ends what the last written mark_run_complete stored
SavedUntilAfter(out) == IF out = "torn" THEN 0 ELSE saved_until

\* the intervals passed to set_interval
ScheduleHours == {0, 1, 2}

\* time passes
HoursPass(d) ==
    /\ utc_now + d <= MaxClock
    /\ utc_now' = utc_now + d
    /\ s_last' = SCall("none", FALSE, FALSE, "none")
    /\ UNCHANGED <<schedule_file, s_initial, triggered, promised_until, saved_until>>
    /\ UNCHANGED <<runv, launchv>>

\* enable_schedule(instance_id, enabled)
EnableSchedule(enabled) ==
    /\ IF GetScheduleRaises(schedule_file)
       THEN /\ s_last' = SCall("enable_schedule", FALSE, TRUE, "none")
            /\ UNCHANGED <<schedule_file, saved_until>>
       ELSE \E out \in ScheduleWrites :
              LET schedule == [GetSchedule(schedule_file) EXCEPT !.enabled = enabled]
                  interval == schedule.interval_hours
                  next_run == PlusHours(NowUtc, interval)
              IN  /\ SaveSchedule(IF enabled /\ ~Truthy(schedule.next_run_utc)
                                  THEN [schedule EXCEPT !.next_run_utc = IsoFormat(next_run)]
                                  ELSE schedule,
                                  out)
                  /\ s_last' = SCall("enable_schedule", FALSE, FALSE, out)
                  /\ saved_until' = SavedUntilAfter(out)
    /\ UNCHANGED <<utc_now, s_initial, triggered, promised_until>>
    /\ UNCHANGED <<runv, launchv>>

\* set_interval(instance_id, hours): the parse of last_run_utc is not guarded
SetInterval(hours) ==
    /\ IF \/ GetScheduleRaises(schedule_file)
          \/ /\ GetSchedule(schedule_file).enabled
             /\ Truthy(GetSchedule(schedule_file).last_run_utc)
             /\ FromIsoFormatRaises(GetSchedule(schedule_file).last_run_utc)
       THEN /\ s_last' = SCall("set_interval", FALSE, TRUE, "none")
            /\ UNCHANGED schedule_file
       ELSE \E out \in ScheduleWrites :
              LET schedule == [GetSchedule(schedule_file) EXCEPT !.interval_hours = hours]
                  last_run == FromIsoFormat(schedule.last_run_utc)
                  next_run == PlusHours(last_run, hours)
              IN  /\ SaveSchedule(IF schedule.enabled /\ Truthy(schedule.last_run_utc)
                                  THEN [schedule EXCEPT !.next_run_utc = IsoFormat(next_run)]
                                  ELSE schedule,
                                  out)
                  /\ s_last' = SCall("set_interval", FALSE, FALSE, out)
    /\ promised_until' = 0
    /\ saved_until' = 0
    /\ UNCHANGED <<utc_now, s_initial, triggered>>
    /\ UNCHANGED <<runv, launchv>>

\* history: the time before which a mark_run_complete at utc_now says no run is due
UntilOf(interval) == IF interval > 0 THEN utc_now + interval ELSE 0

\* variant: the next run is the time of the run itself
MarkRunCompleteNoInterval ==
    /\ IF GetScheduleRaises(schedule_file)
       THEN /\ s_last' = SCall("mark_run_complete", FALSE, TRUE, "none")
            /\ UNCHANGED <<schedule_file, promised_until, saved_until>>
       ELSE \E out \in ScheduleWrites :
              LET schedule == GetSchedule(schedule_file)
                  now == NowUtc
                  interval == schedule.interval_hours
              IN  /\ SaveSchedule([schedule EXCEPT
                                     !.last_run_utc = IsoFormat(now),
                                     !.next_run_utc = IsoFormat(now)],
                                  out)
                  /\ s_last' = SCall("mark_run_complete", FALSE, FALSE, out)
                  /\ promised_until' = UntilOf(interval)
                  /\ saved_until' = IF out = "written" THEN UntilOf(interval)
                                                      ELSE SavedUntilAfter(out)
    /\ UNCHANGED <<utc_now, s_initial, triggered>>
    /\ UNCHANGED <<runv, launchv>>

\* mark_run_complete(instance_id)
MarkRunComplete ==
    /\ IF GetScheduleRaises(schedule_file)
       THEN /\ s_last' = SCall("mark_run_complete", FALSE, TRUE, "none")
            /\ UNCHANGED <<schedule_file, promised_until, saved_until>>
       ELSE \E out \in ScheduleWrites :
              LET schedule == GetSchedule(schedule_file)
                  now == NowUtc
                  interval == schedule.interval_hours
              IN  /\ SaveSchedule([schedule EXCEPT
                                     !.last_run_utc = IsoFormat(now),
                                     !.next_run_utc = IsoFormat(PlusHours(now, interval))],
                                  out)
                  /\ s_last' = SCall("mark_run_complete", FALSE, FALSE, out)
                  /\ promised_until' = UntilOf(interval)
                  /\ saved_until' = IF out = "written" THEN UntilOf(interval)
                                                      ELSE SavedUntilAfter(out)
    /\ UNCHANGED <<utc_now, s_initial, triggered>>
    /\ UNCHANGED <<runv, launchv>>

\* trigger_immediate_run(instance_id): nothing is saved for a disabled schedule
TriggerImmediateRun ==
    /\ IF GetScheduleRaises(schedule_file)
       THEN /\ s_last' = SCall("trigger_immediate_run", FALSE, TRUE, "none")
            /\ UNCHANGED schedule_file
       ELSE IF ~GetSchedule(schedule_file).enabled
       THEN /\ s_last' = SCall("trigger_immediate_run", FALSE, FALSE, "none")
            /\ UNCHANGED schedule_file
       ELSE \E out \in ScheduleWrites :
              /\ SaveSchedule([GetSchedule(schedule_file) EXCEPT
                                 !.next_run_utc = IsoFormat(NowUtc)],
                              out)
              /\ s_last' = SCall("trigger_immediate_run", FALSE, FALSE, out)
    /\ triggered' = TRUE
    /\ promised_until' = 0
    /\ saved_until' = 0
    /\ UNCHANGED <<utc_now, s_initial>>
    /\ UNCHANGED <<runv, launchv>>

\* is_due(instance_id)
IsDueCall ==
    /\ s_last' = IF GetScheduleRaises(schedule_file)
                 THEN SCall("is_due", FALSE, TRUE, "none")
                 ELSE SCall("is_due", IsDue(schedule_file, NowUtc), FALSE, "none")
    /\ UNCHANGED <<schedule_file, utc_now, s_initial, triggered, promised_until, saved_until>>
    /\ UNCHANGED <<runv, launchv>>

\* what the schedule file can hold before the first call: nothing, text that
\* is not JSON, a JSON value that is not an object, or an object written by
\* an earlier session or by hand
ScheduleContents ==
    {NoScheduleFile, InvalidScheduleFile, NotObjectScheduleFile,
     ScheduleDoc(TRUE, 1, NoTime, NoTime),
     ScheduleDoc(TRUE, 1, NoTime, BadTime),
     ScheduleDoc(TRUE, 1, NoTime, NaiveTime(2)),
     ScheduleDoc(TRUE, 1, AwareTime(0), AwareTime(1)),
     ScheduleDoc(TRUE, 1, BadTime, AwareTime(2)),
     ScheduleDoc(FALSE, 1, NoTime, AwareTime(0))}

\* SpecSchedule: calls of the methods of one ScheduleManager for one instance
\* while time passes
ScheduleInitial ==
    \E sf \in ScheduleContents :
        InitWith(ProcessRetryConfig, TRUE, FALSE, FALSE, AllEnabled, 0, MissingFile, 0, sf)

ScheduleNext ==
    \/ HoursPass(1)
    \/ \E enabled \in BOOLEAN : EnableSchedule(enabled)
    \/ \E hours \in ScheduleHours : SetInterval(hours)
    \/ MarkRunComplete
    \/ TriggerImmediateRun
    \/ IsDueCall

SpecSchedule == ScheduleInitial /\ [][ScheduleNext]_vars

\* ------------------------------------------------------------------ claims
InRecoveryLoop == pc \in {"r_head", "r_classify", "r_act"}
Range(s) == {s[k] : k \in 1 .. Len(s)}
AtDailyRun == pc \in {"build_run", "exp_run"}

\* C1, as the claim states it: one call of the wrapper invokes the operation
\* at most max_retries + 1 times and recovery at most max_retries times, never
\* after the final attempt; when every attempt fails the counts are exactly
\* max_retries + 1 invocations and max_retries recoveries.
C1_AsStated ==
    /\ calls <= config.max_retries + 1
    /\ recs <= config.max_retries
    /\ (r_caller = "retry" /\ (InRecoveryLoop \/ pc = "r_ret")) => attempt < config.max_retries
    /\ (pc = "o_ret" /\ ~w_result) =>
          (calls = config.max_retries + 1 /\ recs = config.max_retries)

\* C2, as the claim states it: when the processing of an index has failed
\* after all its retries, every later index below num_of_chars is still
\* attempted unless the loop was left on a stop request; a failure never ends
\* the run.
C2_AsStated ==
    /\ (pc = "done" /\ ~stopped_early) =>
          \A k \in 1 .. Len(failed_characters) :
              \A j \in failed_characters[k] .. (num_of_chars - 1) : j \in Range(visited)
    /\ (pc = "summary" /\ ~stopped_early) => i >= num_of_chars
    /\ pc # "crashed"

\* C3, as the claim states it: the indices are visited in strictly increasing
\* order within [start_from, num_of_chars); at every point
\* successful_characters + len(failed_characters) <= num_of_chars - start_from,
\* with equality at the end of a run that was not stopped; each visited index
\* is counted once.
C3_AsStated ==
    /\ \A a, b \in 1 .. Len(visited) : a < b => visited[a] < visited[b]
    /\ \A a \in 1 .. Len(visited) : start_from <= visited[a] /\ visited[a] < num_of_chars
    /\ successful_characters + Len(failed_characters) <= num_of_chars - start_from
    /\ pc \in {"loop", "summary", "done"} =>
          Len(visited) = successful_characters + Len(failed_characters)
    /\ (pc = "done" /\ ~stopped_early) =>
          successful_characters + Len(failed_characters) = num_of_chars - start_from

\* the scenario of C4: 3 characters from index 0, max_retries = 2, every
\* attempt of index 1 fails, no attempt of index 0 or 2 fails
C4_IndexOneLeft ==
    /\ pc = "loop"
    /\ i = 2
    /\ num_of_chars = 3
    /\ start_from = 0
    /\ config.max_retries = 2
    /\ visited = <<0, 1>>
    /\ ~retried_ok
    /\ exhausted = {1}

C4_RunOver ==
    /\ pc = "done"
    /\ num_of_chars = 3
    /\ start_from = 0
    /\ config.max_retries = 2
    /\ visited = <<0, 1, 2>>
    /\ ~retried_ok
    /\ exhausted = {1}

\* C4, as the claim states it: in that scenario the run ends with 2
\* successes, failed list [1] and not stopped early, and return_to_home was
\* invoked exactly 3 times for index 1.
C4_AsStated ==
    /\ C4_IndexOneLeft => ent_recov = 3
    /\ C4_RunOver =>
          /\ successful_characters = 2
          /\ failed_characters = <<1>>
          /\ ~stopped_early

\* C5, as the claim states it: return_to_home returns true at its first
\* HOME_VILLAGE classification, the k-th, after k classifications and k - 1
\* corrective actions, k <= max_attempts; when no classification gives
\* HOME_VILLAGE it returns false after exactly max_attempts classifications.
C5_AsStated ==
    /\ InRecoveryLoop => homes = 0
    /\ pc # "r_raise"
    /\ pc = "r_ret" =>
          IF homes > 0
          THEN /\ r_result
               /\ homes = 1
               /\ current_screen = HOME_VILLAGE
               /\ cls <= r_max
               /\ acts = cls - 1
          ELSE /\ ~r_result
               /\ cls = r_max

\* C6, as the claim states it: is_task_completed_today(c, t) returns true
\* exactly when a date is stored for (c, t) and it is today's UTC date: true
\* after a mark on the same day, false after the day has rolled over, false
\* without a record.
C6_AsStated ==
    t_last.op = "query" =>
        /\ ~t_last.raised
        /\ t_last.res <=> (marked[t_last.c][t_last.t] # 0
                             /\ marked[t_last.c][t_last.t] = utc_day)

\* C7, as the claim states it: with force off and a tracker, a daily task
\* whose automation reported success for the character on the current UTC
\* day, with no reset since, is not invoked again for it on that day.
C7_AsStated ==
    (ev.kind = "gate" /\ ev.flag /\ ~force_daily_tasks /\ has_tracker) =>
        succ[current_character_index][ev.task] # utc_day

\* C7: with force off and a tracker, a daily task whose automation reported
\* success for the character on the current UTC day is not invoked again on
\* that day by a later attempt of the same processing, nor by a run whose
\* tracker holds the completion (it loaded it from the file).
C7_Theorem ==
    (ev.kind = "gate" /\ ev.flag /\ ~force_daily_tasks /\ has_tracker) =>
        /\ now_succ[ev.task] # utc_day
        /\ succ[current_character_index][ev.task] = utc_day =>
              marked[current_character_index][ev.task] # utc_day

C7_Witness ==
    /\ ev.kind = "gate"
    /\ ~ev.flag
    /\ ~force_daily_tasks
    /\ has_tracker
    /\ attempt > 0
    /\ now_succ[ev.task] = utc_day

C9_Theorem ==
    (ev.kind = "gate" /\ force_daily_tasks) => (ev.flag /\ AtDailyRun)

C9_Witness ==
    /\ ev.kind = "gate"
    /\ force_daily_tasks
    /\ ev.flag
    /\ IsTaskCompletedToday(data, current_character_index, ev.task, GetTodayUtc)

\* C10, as the claim states it: a call of reset_all_tasks leaves a tracker on
\* which is_task_completed_today returns false for every character and every
\* task, whatever was marked before.
C10_AsStated ==
    t_last.op = "reset_all" =>
        /\ ~t_last.raised
        /\ ~CharactersRaises(data)
        /\ \A c \in TChars, t \in Tasks : ~IsTaskCompletedToday(data, c, t, GetTodayUtc)

\* C11: the tracker state survives a restart.  After a mark whose write
\* succeeded, a tracker built on the file reports the task completed on the
\* same UTC date and holds the date of every other entry as it was; a tracker
\* built on the file holds exactly the dates of the last successful write.
C11_Theorem ==
    /\ (t_last.op = "mark" /\ t_last.res) =>
          /\ IsTaskCompletedToday(LoadTrackingData(file), t_last.c, t_last.t, GetTodayUtc)
          /\ \A c \in TChars, t \in Tasks :
                CharDataGet(LoadTrackingData(file), c, t) = marked[c][t]
    /\ t_last.op = "load" =>
          \A c \in TChars, t \in Tasks :
              /\ CharDataGet(data, c, t) = persisted[c][t]
              /\ IsTaskCompletedToday(data, c, t, GetTodayUtc) <=> (persisted[c][t] = utc_day)

C11_Witness ==
    /\ t_last.op = "load"
    /\ utc_day = 2
    /\ IsTaskCompletedToday(data, 0, TASK_EXPEDITION, GetTodayUtc)
    /\ CharDataGet(data, 0, TASK_BUILD) = 1

\* a well-formed document is in the tracking file
FileHoldsDocument == file.state = "ok" /\ file.doc.shape = "document"

\* C12, as the claim states it: whatever the tracking file holds at load
\* time, building the tracker does not raise and gives an empty store unless
\* the file holds a well-formed document, and no later call of
\* is_task_completed_today or mark_task_completed raises.
C12_AsStated ==
    /\ t_last.op \in {"load", "query", "mark"} => ~t_last.raised
    /\ (t_last.op = "load" /\ ~FileHoldsDocument) => data = EmptyDoc

C14_AsStated ==
    stopped_in >= 0 =>
        /\ (stopped_in + 1) \notin Range(failed_characters)
        /\ \A k \in 1 .. Len(failed_characters) :
              (failed_characters[k] - 1) \in Range(visited)
        /\ ~(i = stopped_in /\ r_caller \in {"bulkhead", "bulkhead_handler"}
               /\ (InRecoveryLoop \/ pc \in {"r_ret", "r_raise"}))
        /\ pc = "done" => stopped_early

\* C15, as the claim states it: once a check of the stop event has returned
\* True, the wrapper starts no further attempt and return_to_home sends no
\* further click or key.
C15_AsStated ==
    stop_seen =>
        /\ pc # "f_enter"
        /\ ~(ev.kind = "recover" /\ ev.clicks + ev.escapes > 0)

\* C16, as the claim states it: no exception leaves switch_all_characters.
\* An index whose processing uses up its retries, or whose processing or
\* follow-up return_to_home raises, is recorded as one failure entry and the
\* loop goes on with the next index.
C16_AsStated ==
    /\ pc # "crashed"
    /\ \A a, b \in 1 .. Len(failed_characters) :
          a # b => failed_characters[a] # failed_characters[b]
    /\ (pc = "loop" /\ Len(visited) > 0) => i = visited[Len(visited)] + 1

\* C17, as the claim states it: an exception of the wrapped operation is
\* caught and the attempt counts as a failure, with recovery and delay only
\* when attempts remain; the wrapper returns False, and never raises, when no
\* attempt succeeds, and returns True as soon as one attempt is truthy.
C17_AsStated ==
    /\ ~w_raised
    /\ (pc = "w_ret" /\ f_result = "raise") => calls = attempt + 1
    /\ pc = "w_sleep" => attempt < config.max_retries
    /\ (pc = "o_ret" /\ ~w_result) => (calls = config.max_retries + 1 /\ f_result # "true")
    /\ (pc = "o_ret" /\ w_result) => (calls = attempt + 1 /\ f_result = "true")

\* C18, as the claim states it: a return_to_home that returns False between
\* two attempts does not end the retry loop, the wrapper sleeps and calls the
\* operation again; return_to_home is called exactly once between two
\* consecutive attempts.
C18_AsStated ==
    /\ (pc = "w_sleep" /\ ev.kind = "recovered" /\ ~ev.flag) => attempt < config.max_retries
    /\ (pc = "f_enter" /\ config.recover_to_home /\ has_recovery) => recs = attempt

\* the order in which get_current_screen looks for the screens
C19_Order == <<CHARACTER_LOGIN, ALLIANCE_MENU, HOME_VILLAGE, MAP_SCREEN, DIALOG_OPEN>>

\* the first check that reports presence, 0 when none does
C19_FirstMatch(obs) ==
    IF \E k \in 1 .. 5 : obs[k]
    THEN CHOOSE k \in 1 .. 5 : obs[k] /\ \A m \in 1 .. (k - 1) : ~obs[m]
    ELSE 0

\* C19, as the claim states it: for every combination of check outcomes a
\* call of get_current_screen returns a screen, the screen of the first check,
\* in the fixed order, that reports presence, and UNKNOWN when none does; no
\* check after the first match is run.  A check reports presence when the
\* screen shows its text and no stop is requested.
C19_AsStated ==
    /\ ev.kind # "screen_raised"
    /\ ev.kind = "screen" =>
          LET out == [m \in 1 .. 5 |-> ~ev.flag /\ ev.obs[m]]
              k == C19_FirstMatch(out) IN
          /\ ev.task = IF k = 0 THEN UNKNOWN ELSE C19_Order[k]
          /\ ev.evals <= IF k = 0 THEN 5 ELSE k

\* C20, as the claim states it: every corrective action of return_to_home is
\* followed by a fresh classification before the call returns, with success
\* or with failure.
C20_AsStated ==
    (pc = "r_ret" /\ acts > 0) => cls > acts

\* C20: return_to_home returns True only on a classification made after
\* every corrective action it has applied; each action follows a
\* classification of its own, and between two actions there is a fresh
\* classification.  A call that returns False has classified as many times as
\* it has acted: its last action is not followed by a classification.
C20_Theorem ==
    /\ pc \in {"r_head", "r_classify"} => cls = acts
    /\ pc = "r_act" => cls = acts + 1
    /\ (pc = "r_ret" /\ r_result) => (cls = acts + 1 /\ current_screen = HOME_VILLAGE)
    /\ (pc = "r_ret" /\ ~r_result) => cls = acts

C20_Witness ==
    /\ pc = "r_ret"
    /\ r_result
    /\ acts = 2
    /\ cls = 3

\* C21: the corrective action of a return_to_home cycle is fixed by the
\* classified screen: MAP_SCREEN one click on the map button and no escape,
\* CHARACTER_LOGIN three escapes, ALLIANCE_MENU two, DIALOG_OPEN one, UNKNOWN
\* one; on HOME_VILLAGE the call returns without an action.
C21_Theorem ==
    /\ ev.kind = "recover" =>
          /\ ev.task = current_screen
          /\ ev.task = MAP_SCREEN => (ev.clicks = 1 /\ ev.escapes = 0)
          /\ ev.task = CHARACTER_LOGIN => (ev.clicks = 0 /\ ev.escapes = 3)
          /\ ev.task = ALLIANCE_MENU => (ev.clicks = 0 /\ ev.escapes = 2)
          /\ ev.task = DIALOG_OPEN => (ev.clicks = 0 /\ ev.escapes = 1)
          /\ ev.task = UNKNOWN => (ev.clicks = 0 /\ ev.escapes = 1)
          /\ ev.task # HOME_VILLAGE
    /\ pc = "r_act" => current_screen # HOME_VILLAGE
    /\ (ev.kind = "classify" /\ ev.task = HOME_VILLAGE) => (pc = "r_ret" /\ r_result)

C21_Witness ==
    /\ ev.kind = "recover"
    /\ ev.task = CHARACTER_LOGIN
    /\ ev.escapes = 3
    /\ acts = 2

\* the order the claim gives to the steps of one attempt
C22_Order == <<"open", "navigate", "confirm", TASK_BUILD, TASK_EXPEDITION, "donation">>

\* C22, as the claim states it: the steps of one attempt are settled in the
\* fixed order, the donation is not started before both daily tasks have been
\* run or skipped, and the donation runs in every cycle: an attempt that goes
\* through all its steps has run it.
C22_AsStated ==
    /\ Len(steps) <= Len(C22_Order)
    /\ \A k \in 1 .. Len(steps) : steps[k][2] = C22_Order[k]
    /\ pc = "don" => Len(steps) = 5
    /\ Len(steps) = 6 => steps[6] = Ran("donation")

\* C22: in one attempt the steps are settled in the order open selection,
\* navigate, confirm, build, expedition, donation, each daily task being run
\* or skipped before the next step; the donation is not started before both
\* daily tasks have been run or skipped.  An attempt that reaches the donation
\* step runs the donation exactly when will_perform_donation is set, whatever
\* the tracker holds and whether or not the daily tasks ran; an attempt
\* returns True only after all six steps.
C22_Theorem ==
    /\ Len(steps) <= Len(C22_Order)
    /\ \A k \in 1 .. Len(steps) : steps[k][2] = C22_Order[k]
    /\ \A k \in 1 .. Len(steps) : k <= 3 => steps[k] = Ran(C22_Order[k])
    /\ pc \in {"build_gate", "build_run"} => Len(steps) = 3
    /\ pc \in {"exp_gate", "exp_run"} => Len(steps) = 4
    /\ pc = "don" => Len(steps) = 5
    /\ ev.kind = "donation" => (Len(steps) = 6 /\ pc = "w_ret")
    /\ Len(steps) = 6 => (steps[6] = Ran("donation") <=> will.donation)
    /\ (pc = "w_ret" /\ f_result = "true") => Len(steps) = 6

\* an attempt that skipped both daily tasks on the tracker's word and then
\* ran the donation
C22_Witness ==
    /\ pc = "w_ret"
    /\ ev.kind = "donation"
    /\ steps = <<Ran("open"), Ran("navigate"), Ran("confirm"), Skipped(TASK_BUILD),
                 Skipped(TASK_EXPEDITION), Ran("donation")>>
    /\ has_tracker
    /\ ~force_daily_tasks
    /\ \A t \in Tasks : IsTaskCompletedToday(data, current_character_index, t, GetTodayUtc)
    /\ now_succ = NoTaskDays

\* ceil(a / b) for positive b
C23_Ceil(a, b) == (a + b - 1) \div b

\* C23: wait_for_game_load polls is_loading_screen every 2 seconds, at most
\* ceil(max_wait / 2) times.  It returns True after one sleep of 3 seconds,
\* either at the first poll without loading screen that follows a poll with
\* one, or when max_wait has elapsed, after ceil(max_wait / 2) polls; it
\* returns False, without that sleep, when its stop check at a poll is True.
C23_Theorem ==
    /\ pc = "wait_load" =>
          /\ elapsed % CheckInterval = 0
          /\ elapsed \div CheckInterval <= C23_Ceil(GameLoadWaitSeconds, CheckInterval)
    /\ ev.kind = "poll" => (pc = "wait_load" /\ elapsed >= CheckInterval)
    /\ ev.kind = "wait_end" =>
          /\ CheckInterval = 2
          /\ ev.evals <= C23_Ceil(GameLoadWaitSeconds, CheckInterval)
          /\ ev.flag =>
                /\ ev.buffers = 1
                /\ \/ ev.task = "cleared" /\ ev.seen
                   \/ /\ ev.task = "max_wait"
                      /\ ev.evals = C23_Ceil(GameLoadWaitSeconds, CheckInterval)
          /\ ~ev.flag => (ev.buffers = 0 /\ ev.task = "stopped" /\ stop_seen)

\* a wait that ends at its second poll, the loading screen seen at the first
C23_Witness ==
    /\ ev.kind = "wait_end"
    /\ ev.flag
    /\ ev.task = "cleared"
    /\ ev.evals = 2
    /\ ev.buffers = 1

\* C24: a run of switch_all_characters that has started reaches its end, by
\* its return or by an exception that leaves it, whatever the capability
\* calls return and whenever stop is requested.
C24_Theorem == (pc = "loop") ~> (pc \in {"done", "crashed"})

\* a run that ended after a character succeeded and another failed through
\* all its retries and recoveries
C24_Witness ==
    /\ pc = "done"
    /\ successful_characters > 0
    /\ Len(failed_characters) > 0
    /\ exhausted # {}
    /\ ~stopped_early

\* the save of the last tracker call failed
C25_WriteFailed ==
    /\ t_last.op \in {"mark", "reset_all", "reset_char"}
    /\ t_last.out \in {"refused", "torn"}

\* C25: when _save_tracking_data cannot write the file during
\* mark_task_completed, reset_all_tasks or reset_tasks_for_character, the call
\* does not raise and self.data holds the new state; as long as the tracker
\* object lives, is_task_completed_today answers from the marks and resets
\* made on it, written or not.
C25_Theorem ==
    /\ C25_WriteFailed =>
          /\ ~t_last.raised
          /\ ~CharactersRaises(data)
          /\ t_last.op = "mark" =>
                IsTaskCompletedToday(data, t_last.c, t_last.t, GetTodayUtc)
          /\ t_last.op = "reset_all" =>
                /\ data.keys = {}
                /\ \A c \in TChars, t \in Tasks :
                      ~IsTaskCompletedToday(data, c, t, GetTodayUtc)
          /\ t_last.op = "reset_char" =>
                /\ t_last.c \notin data.keys
                /\ \A t \in Tasks : ~IsTaskCompletedToday(data, t_last.c, t, GetTodayUtc)
    /\ (has_tracker /\ ~CharactersRaises(data)) =>
          \A c \in TChars, t \in Tasks :
              IsTaskCompletedToday(data, c, t, GetTodayUtc) <=> marked[c][t] = utc_day
    /\ (t_last.op = "query" /\ ~t_last.raised) =>
          (t_last.res <=> marked[t_last.c][t_last.t] = utc_day)

\* a query answered True from memory for a mark whose write failed: the file
\* does not hold it
C25_Witness ==
    /\ t_last.op = "query"
    /\ t_last.res
    /\ io_faults > 0
    /\ persisted[t_last.c][t_last.t] # utc_day
    /\ ~IsTaskCompletedToday(LoadTrackingData(file), t_last.c, t_last.t, GetTodayUtc)

\* the file holds the date of the entry
C26_Readable(f, entry) ==
    /\ f.state = "ok"
    /\ f.doc.shape = "document"
    /\ entry \in f.doc.entries

\* C26: a write of the tracking file replaces it as a whole: a file that
\* parses is never left as one that does not, and after mark_task_completed
\* the completions of the other (character, task) pairs that the file held are
\* still read from it.
C26_AsStated ==
    [][/\ file.state \in {"ok", "missing"} => file'.state \in {"ok", "missing"}
       /\ (t_last'.op = "mark" /\ t_last'.out # "none") =>
             \A entry \in file.doc.entries :
                 (C26_Readable(file, entry) /\ <<entry[1], entry[2]>> # <<t_last'.c, t_last'.t>>)
                     => C26_Readable(file', entry)]_vars

\* C27: a stop_instance call for an instance that has a running automation
\* thread sets a stop event: it does not answer "not running" while a thread
\* of the instance is alive with its event not set, and the entry it removes
\* is that of a thread whose event is set.  A stop event that is set stays
\* set, and a further request changes no stop event that is set.
C27_AsStated ==
    [][/\ (l_last'.op = "stop" /\ l_last' # l_last /\ ~l_last'.raised) =>
             IF l_last'.res
             THEN threads[running_threads[l_last'.inst]].stop_event
             ELSE \A k \in 1 .. Len(threads) :
                      (threads[k].instance = l_last'.inst /\ threads[k].alive)
                          => threads[k].stop_event
       /\ \A k \in 1 .. Len(threads) :
             threads[k].stop_event =>
                 (threads'[k].stop_event /\ threads'[k].instance = threads[k].instance)]_vars

\* C28: the stop event of a thread is set only by a stop_instance call for
\* the thread's own instance id, and the tracking file of an instance changes
\* only by a completion or a reset recorded for that instance: two instance
\* ids never have the same path.
C28_Theorem ==
    [][/\ \A k \in 1 .. Len(threads) :
             (threads'[k].stop_event /\ ~threads[k].stop_event) =>
                 \E r \in Requesters :
                     /\ req[r].pc = "set"
                     /\ req[r].inst = threads[k].instance
                     /\ req'[r].pc = "del"
       /\ \A id \in Instances :
             LET p == GetTrackerPathForInstance(InstancesDir, id) IN
             stores'[p] # stores[p] => (l_last'.op \in {"mark", "reset"} /\ l_last'.inst = id)
       /\ \A a, b \in Instances :
             a # b => GetTrackerPathForInstance(InstancesDir, a)
                          # GetTrackerPathForInstance(InstancesDir, b)]_vars

\* A and B run at the same time, A has been stopped and has recorded a
\* completion; B's stop event is not set and B's file holds nothing
C28_Witness ==
    /\ Len(threads) = 2
    /\ \E ka, kb \in 1 .. Len(threads) :
          /\ threads[ka] = [instance |-> "A", stop_event |-> TRUE, alive |-> TRUE]
          /\ threads[kb] = [instance |-> "B", stop_event |-> FALSE, alive |-> TRUE]
    /\ stores[GetTrackerPathForInstance(InstancesDir, "A")] = {TASK_BUILD}
    /\ stores[GetTrackerPathForInstance(InstancesDir, "B")] = {}
    /\ l_last = LCall("stop", "A", TRUE, FALSE)

\* C29: reset_tasks_for_character(c) returns; afterwards no task of c is
\* completed today and the dates of every other character are as before; when
\* c has no record, the data and the file stay as they are and nothing is
\* written.
C29_AsStated ==
    [][t_last'.op = "reset_char" =>
          /\ ~t_last'.raised
          /\ ~CharactersRaises(data')
          /\ \A t \in Tasks : ~IsTaskCompletedToday(data', t_last'.c, t, GetTodayUtc)
          /\ \A c \in AllChars \ {t_last'.c} :
                /\ c \in data'.keys <=> c \in data.keys
                /\ \A t \in Tasks : CharDataGet(data', c, t) = CharDataGet(data, c, t)
          /\ t_last'.c \notin data.keys =>
                (data' = data /\ file' = file /\ t_last'.out = "none")]_vars

\* the number of characters in [start_from, num_of_chars)
C30_ToProcess == IF num_of_chars > start_from THEN num_of_chars - start_from ELSE 0

\* C30: switch_all_characters returns True exactly when every character of
\* [start_from, num_of_chars) was processed successfully, and False when one
\* of them failed.
C30_AsStated ==
    pc = "done" =>
        /\ run_result <=> successful_characters = C30_ToProcess
        /\ Len(failed_characters) > 0 => ~run_result

\* C31: the tracking file holds a date for a (character, task) only when
\* the task has reported success since the last reset_all_tasks that the GUI
\* wrote to the file: a completion that the reset cleared is not brought back
\* by a later mark_task_completed of the running tracker.
C31_AsStated ==
    \A c \in AllChars, t \in Tasks :
        DocMarks(LoadTrackingData(file))[c][t] # 0
            => DocMarks(LoadTrackingData(file))[c][t] = succ[c][t]

\* the automation threads of an instance id that are alive
C32_Alive(id) == {k \in 1 .. Len(threads) : threads[k].instance = id /\ threads[k].alive}

\* C32: at most one AutomationThread of an instance id is alive at any time.
C32_AsStated == \A id \in Instances : Cardinality(C32_Alive(id)) <= 1

\* C33: a thread that is alive, whose stop event is not set, and for whose
\* instance no stop_instance call is under way, is the thread registered in
\* running_threads for its instance id: is_instance_running is true and
\* stop_instance reaches its stop event.
C33_AsStated ==
    \A k \in 1 .. Len(threads) :
        (/\ threads[k].alive
         /\ ~threads[k].stop_event
         /\ \A r \in Requesters : req[r].inst # threads[k].instance)
            => running_threads[threads[k].instance] = k

\* C34: launch_instance(id) returns False and leaves running_threads and the
\* threads as they are when the id is registered, the instance is unknown or
\* it has no config manager; otherwise it returns True, having started one
\* new thread whose stop event is not set and registered it under the id,
\* the entries of the other ids untouched.
C34_Theorem ==
    [][(l_last'.op = "launch" /\ l_last' # l_last) =>
          IF running_threads[l_last'.inst] # 0 \/ ~l_last'.known \/ ~l_last'.config
          THEN /\ ~l_last'.res
               /\ threads' = threads
               /\ running_threads' = running_threads
          ELSE /\ l_last'.res
               /\ threads' = Append(threads, NewThread(l_last'.inst))
               /\ running_threads' =
                     [running_threads EXCEPT ![l_last'.inst] = Len(threads')]]_vars

\* B is launched while A runs, after a launch of A was refused
C34_Witness ==
    /\ l_last = [op |-> "launch", inst |-> "B", res |-> TRUE, raised |-> FALSE,
                 known |-> TRUE, config |-> TRUE]
    /\ threads = <<NewThread("A"), NewThread("B")>>
    /\ running_threads = [id \in Instances |-> IF id = "A" THEN 1 ELSE 2]

\* C35: an automation (build, expedition or donation) that returns False does
\* not fail the index.  An attempt in which one did, and which no exception
\* ended, returns False only when a stop check saw the stop request; when it
\* returns True the wrapper returns True at once, with no further attempt and
\* no recovery, and the run loop then counts the index as successful.
C35_Theorem ==
    [][/\ (pc = "w_ret" /\ sub_failed /\ f_result = "false") => stop_seen
       /\ (pc = "w_ret" /\ pc' # pc /\ sub_failed /\ f_result = "true") =>
             (/\ pc' = "o_ret"
              /\ w_result'
              /\ attempt' = attempt
              /\ recs' = recs
              /\ ~w_raised')
       /\ (pc = "o_ret" /\ pc' # pc /\ w_result /\ ~w_raised) =>
             (/\ successful_characters' = successful_characters + 1
              /\ failed_characters' = failed_characters
              /\ pc' = "loop")]_vars

\* the first attempt for the second index returns True although the build
\* automation returned False in it, with no stop request seen
C35_Witness ==
    /\ pc = "w_ret"
    /\ sub_failed
    /\ f_result = "true"
    /\ steps[4] = Ran(TASK_BUILD)
    /\ ev.kind = "donation"
    /\ ev.flag
    /\ ~stop_seen
    /\ i = 1
    /\ attempt = 0
    /\ recs = 0

\* C36, as the claim states it: an attempt that has run the donation does not
\* fail and get retried; the wrapper returns to the run loop after it.
C36_AsStated ==
    [][(/\ pc = "w_ret"
        /\ pc' # pc
        /\ Len(steps) = 6
        /\ steps[6] = Ran("donation")) => pc' = "o_ret"]_vars

\* C37, as the claim states it: is_due returns false for a disabled schedule;
\* for an enabled one it returns true iff next_run_utc is missing, cannot be
\* parsed, or the current time is at or past it.
C37_AsStated ==
    (s_last.op = "is_due" /\ ~s_last.raised) =>
        LET schedule == GetSchedule(schedule_file)
            next == schedule.next_run_utc
        IN  s_last.res = (/\ schedule.enabled
                          /\ \/ ~Truthy(next)
                             \/ FromIsoFormatRaises(next)
                             \/ utc_now >= next.t)

\* C37: is_due returns false for a disabled schedule; for an enabled one it
\* returns true iff next_run_utc is missing, cannot be parsed, is a time
\* without a UTC offset, or the current time is at or past it.
C37_Theorem ==
    (s_last.op = "is_due" /\ ~s_last.raised) =>
        LET schedule == GetSchedule(schedule_file)
            next == schedule.next_run_utc
        IN  s_last.res = (/\ schedule.enabled
                          /\ \/ ~Truthy(next)
                             \/ FromIsoFormatRaises(next)
                             \/ next.kind = "naive"
                             \/ utc_now >= next.t)

\* is_due has returned True for an enabled schedule whose next run is a
\* parseable time without offset that lies ahead
C37_Witness ==
    /\ s_last = SCall("is_due", TRUE, FALSE, "none")
    /\ GetSchedule(schedule_file).enabled
    /\ GetSchedule(schedule_file).next_run_utc.kind = "naive"
    /\ utc_now < GetSchedule(schedule_file).next_run_utc.t

\* what mark_run_complete at the current time stores for the schedule s
C38_Marked(s) ==
    [s EXCEPT !.last_run_utc = AwareTime(utc_now),
              !.next_run_utc = AwareTime(utc_now + s.interval_hours)]

\* C38, as the claim states it: a mark_run_complete that returns has stored
\* last_run_utc = now and next_run_utc = now + interval_hours with enabled and
\* interval_hours as they were; and after one with a positive interval no run
\* is due before that time, unless trigger_immediate_run or set_interval is
\* called in between.
C38_AsStated ==
    [][/\ (s_last'.op = "mark_run_complete" /\ s_last' # s_last /\ ~s_last'.raised) =>
             GetSchedule(schedule_file') = C38_Marked(GetSchedule(schedule_file))
       /\ utc_now' < promised_until' =>
             ~IsDue(schedule_file', [aware |-> TRUE, t |-> utc_now'])]_vars

\* C38: a mark_run_complete whose write succeeds has stored last_run_utc = now
\* and next_run_utc = now + interval_hours with enabled and interval_hours as
\* they were; and after one with a positive interval no run is due before
\* that time, until trigger_immediate_run or set_interval is called or a
\* later write leaves the file torn.
C38_Theorem ==
    [][/\ (s_last'.op = "mark_run_complete" /\ s_last' # s_last /\ s_last'.out = "written") =>
             schedule_file' = [kind |-> "document",
                               doc |-> C38_Marked(GetSchedule(schedule_file))]
       /\ utc_now' < saved_until' =>
             ~IsDue(schedule_file', [aware |-> TRUE, t |-> utc_now'])]_vars

\* an hour after a mark_run_complete that was written, with the schedule
\* enabled and the next run still ahead, is_due has returned False
C38_Witness ==
    /\ s_last = SCall("is_due", FALSE, FALSE, "none")
    /\ GetSchedule(schedule_file).enabled
    /\ GetSchedule(schedule_file).last_run_utc.kind = "aware"
    /\ GetSchedule(schedule_file).last_run_utc.t < utc_now
    /\ utc_now < saved_until
    /\ saved_until = GetSchedule(schedule_file).last_run_utc.t
                        + GetSchedule(schedule_file).interval_hours

\* C39, as the claim states it: with no schedule on file at the start and no
\* trigger_immediate_run, an enabled schedule that has a last run has its next
\* run at last_run_utc + interval_hours.
C39_AsStated ==
    LET schedule == GetSchedule(schedule_file)
    IN  (/\ s_initial.kind # "document"
         /\ ~triggered
         /\ schedule.enabled
         /\ Truthy(schedule.last_run_utc)) =>
            /\ ~FromIsoFormatRaises(schedule.last_run_utc)
            /\ schedule.next_run_utc =
                   IsoFormat(PlusHours(FromIsoFormat(schedule.last_run_utc),
                                       schedule.interval_hours))

====
